---- MODULE Spec2Model ----
(***************************************************************************)
(* State-machine model of the graph-reduction virtual machine of           *)
(* src/vm.rs (VM::add_assembly, VM::evaluate, VM::execute and the          *)
(* primitive helpers).                                                     *)
(*                                                                         *)
(* Conventions.  Rust vectors are 0-based, TLA+ sequences 1-based: the     *)
(* Rust slot stack[k] is stack[k + 1] here, and every index carried by an  *)
(* instruction (Push, Update, PushGlobal, Jump, ...) keeps its 0-based     *)
(* Rust value.  A Node is an Rc<Node_>: it is modelled as an address into  *)
(* `heap`, the append-only store of every Node::new; cloning a Node copies *)
(* the address.  The recursion of VM::execute is the sequence `frames`,    *)
(* the innermost activation last.  A failed task (fail!, assert!, a bounds *)
(* check, pop of an empty vector, an integer division by zero) unwinds     *)
(* and drops everything it owned: `aborted` keeps the message.             *)
(***************************************************************************)
EXTENDS Integers, Sequences, FiniteSets, TLC

\* Number of top-level VM::execute / VM::evaluate calls a client makes.
MaxCalls == 2

\* the number of operations a client does on one TypeEnvironment
MaxOps == 2

(***************************************************************************)
(* Instructions (compiler::Instruction as matched in VM::execute).  `a`    *)
(* and `b` are the variant's operands (0 when it has none); PushFloat      *)
(* carries the literal a / b, Pack carries (tag, arity).                   *)
(***************************************************************************)
I(op, a, b) == [op |-> op, a |-> a, b |-> b]

I0(op) == I(op, 0, 0)

I1(op, a) == I(op, a, 0)

\* static evalCode : &'static [Instruction] = &[Eval]
evalCode == << I0("Eval") >>

\* static unwindCode : &'static [Instruction] = &[Unwind]
unwindCode == << I0("Unwind") >>

SC(name, arity, instructions, assembly_id) ==
    [name |-> name, arity |-> arity, instructions |-> instructions,
     assembly_id |-> assembly_id]

(***************************************************************************)
(* The assemblies the VM is loaded with (the compiler's output is an input *)
(* of the VM).  Flat global indices once both are loaded:                  *)
(*   0 id  1 add  2 double  3 three  4 idU  5 fst  6 useDict  7 bad2       *)
(*   8 dict                                                                *)
(***************************************************************************)
Assembly0 ==
    [superCombinators |-> <<
        \* id x = x, forcing x
        SC("id", 1, << I1("Push", 0), I0("Eval"), I1("Slide", 1) >>, 0),
        \* add x y = primIntAdd x y
        SC("add", 2, << I1("Push", 1), I0("Eval"), I1("Push", 0), I0("Eval"),
                        I0("Add"), I1("Slide", 2) >>, 0),
        \* double x = primIntAdd x x: forces its argument twice
        SC("double", 1, << I1("Push", 0), I0("Eval"), I1("Push", 0), I0("Eval"),
                           I0("Add"), I1("Slide", 1) >>, 0),
        \* three = primIntAdd 1 2, a constant applicative form
        SC("three", 0, << I1("PushInt", 2), I1("PushInt", 1), I0("Add") >>, 0),
        \* id in update-and-unwind style
        SC("idU", 1, << I1("Push", 0), I0("Eval"), I1("Update", 0), I1("Pop", 1),
                        I0("Unwind") >> , 0)
      >>,
     instance_dictionaries |-> << <<1, 0>> >>]

Assembly1 ==
    [superCombinators |-> <<
        \* fst x y = x, not forcing anything
        SC("fst", 2, << I1("Push", 0), I1("Slide", 2) >>, 1),
        \* useDict d y = (member 0 of d) y
        SC("useDict", 2, << I1("Push", 1), I1("PushDictionaryMember", 0), I0("Mkap"),
                            I0("Eval"), I1("Slide", 2) >>, 1),
        \* a malformed combinator that leaves two values
        SC("bad2", 0, << I1("PushInt", 1), I1("PushInt", 2) >>, 1),
        \* the dictionary 0 of its assembly, as a constant applicative form
        SC("dict", 0, << I1("PushDictionary", 0) >>, 1)
      >>,
     instance_dictionaries |-> << <<2, 5>> >>]

\* The assemblies in the order the compiler numbered them (assembly_id).
Assemblies == << Assembly0, Assembly1 >>

\* Assemblies handed to execute_main (the output of compile_iter): f is global
\* 0 and, where there is one, main is global 1.
MainAssembly(arity, instructions) ==
    [superCombinators |-> <<
        SC("f", 2, << I1("Push", 0), I1("Slide", 2) >>, 0),
        SC("main", arity, instructions, 0) >>,
     instance_dictionaries |-> << <<0>> >>]

MainAssemblies ==
    { \* no main at all
      [superCombinators |-> << SC("f", 2, << I1("Push", 0), I1("Slide", 2) >>, 0) >>,
       instance_dictionaries |-> <<>>],
      \* main = -3 and main = 1.5
      MainAssembly(0, << I1("PushInt", -3) >>),
      MainAssembly(0, << I("PushFloat", 3, 2) >>),
      \* main = Constructor(1, [2, Constructor(0, [1.5])])
      MainAssembly(0, << I("PushFloat", 3, 2), I("Pack", 0, 1), I1("PushInt", 2),
                         I("Pack", 1, 2) >>),
      \* main = Constructor(1, [2, Constructor(0, ['a'])])
      MainAssembly(0, << I1("PushChar", 97), I("Pack", 0, 1), I1("PushInt", 2),
                         I("Pack", 1, 2) >>),
      \* main = Constructor(0, [2, Indirection to 2])
      MainAssembly(0, << I1("PushInt", 2), I1("Push", 0), I1("Update", 0),
                         I("Pack", 0, 2) >>),
      \* main = 'a', main = f, main = f 2 and main = <dictionary 0>
      MainAssembly(0, << I1("PushChar", 97) >>),
      MainAssembly(0, << I1("PushGlobal", 0) >>),
      MainAssembly(0, << I1("PushInt", 2), I1("PushGlobal", 0), I0("Mkap") >>),
      MainAssembly(0, << I1("PushDictionary", 0) >>),
      \* a main that takes an argument
      MainAssembly(1, << I1("Push", 0) >>) }

(***************************************************************************)
(* Code a client hands to VM::execute or VM::evaluate: every single        *)
(* instruction over small operand sets, and a few longer programs.         *)
(***************************************************************************)
IntLits == {-3, 0, 2}

BinaryOps ==
    {"Add", "Sub", "Multiply", "Divide", "Remainder",
     "IntEQ", "IntLT", "IntLE", "IntGT", "IntGE",
     "DoubleAdd", "DoubleSub", "DoubleMultiply", "DoubleDivide", "DoubleRemainder",
     "DoubleEQ", "DoubleLT", "DoubleLE", "DoubleGT", "DoubleGE"}

Instructions ==
    {I0(op) : op \in BinaryOps \cup {"IntToDouble", "DoubleToInt", "Mkap", "Eval",
                                     "Unwind", "Split"}}
    \cup {I1("PushInt", v) : v \in IntLits}
    \cup {I("PushFloat", 3, 2), I1("PushChar", 97)}
    \cup {I1(op, n) : op \in {"Push", "Update"}, n \in 0..1}
    \cup {I1("PushGlobal", g) : g \in {1, 3, 9}}
    \cup {I1("Pop", n) : n \in 1..2}
    \cup {I1("Slide", 1), I1("JumpFalse", 1), I1("Jump", 1)}
    \cup {I("Pack", 0, 0), I("Pack", 1, 0), I("Pack", 0, 1), I("Pack", 1, 2)}
    \cup {I1("CaseJump", t) : t \in 0..1}
    \cup {I1("PushDictionary", d) : d \in 0..1}
    \cup {I1("PushDictionaryMember", k) : k \in 0..2}

\* the instructions whose effect depends on the assembly_id of the call
UsesAssemblyId == {"PushDictionary"}

\* add (-3) 2, unevaluated
ThunkCode ==
    << I1("PushInt", 2), I1("PushInt", -3), I1("PushGlobal", 1), I0("Mkap"), I0("Mkap") >>

\* Constructor(1, [0, 2])
ConsCode == << I1("PushInt", 2), I1("PushInt", 0), I("Pack", 1, 2) >>

\* two Ints r (below) and l (on top), above a Char
IntPairs ==
    {<< I1("PushChar", 97), I1("PushInt", p[1]), I1("PushInt", p[2]) >> :
        p \in {<< 2, -3 >>, << -3, 2 >>, << 0, 2 >>, << 2, 2 >>}}

Programs ==
    IntPairs \cup
    { ThunkCode,
      \* double (add (-3) 2)
      ThunkCode \o << I1("PushGlobal", 2), I0("Mkap") >>,
      \* the constant `three`, forced once through a copy
      << I1("PushGlobal", 3), I1("Push", 0), I0("Eval"), I1("Pop", 1) >>,
      \* the constant `dict`, forced once through a copy
      << I1("PushGlobal", 8), I1("Push", 0), I0("Eval"), I1("Pop", 1) >>,
      \* idU three
      << I1("PushGlobal", 3), I1("PushGlobal", 4), I0("Mkap") >>,
      \* add 2, a partial application
      << I1("PushInt", 2), I1("PushGlobal", 1), I0("Mkap") >>,
      \* an Unwind that is not the last instruction of its frame
      << I1("PushGlobal", 1), I0("Unwind"), I1("PushInt", 2) >>,
      \* id id 2, an over-application
      << I1("PushInt", 2), I1("PushGlobal", 0), I1("PushGlobal", 0), I0("Mkap"),
         I0("Mkap") >>,
      \* useDict <dictionary 0> 2
      << I1("PushInt", 2), I1("PushDictionary", 0), I1("PushGlobal", 6), I0("Mkap"),
         I0("Mkap") >>,
      \* fst 0 bad2
      << I1("PushGlobal", 7), I1("PushInt", 0), I1("PushGlobal", 5), I0("Mkap"),
         I0("Mkap") >>,
      \* bad2, forced
      << I1("PushGlobal", 7), I0("Eval") >>,
      \* Constructor(1, [0, 2]), alone and split again
      ConsCode,
      ConsCode \o << I1("Split", 2) >>,
      \* Constructor(0, ['a']) and Constructor(0, []), split again
      << I1("PushChar", 97), I("Pack", 0, 1), I1("Split", 1) >>,
      << I1("PushInt", 2), I("Pack", 0, 0), I1("Split", 0) >>,
      \* 1.5 / 0.0
      << I1("PushInt", 0), I0("IntToDouble"), I("PushFloat", 3, 2), I0("DoubleDivide") >>,
      \* two Doubles, 1.5 below -3.0
      << I("PushFloat", 3, 2), I1("PushInt", -3), I0("IntToDouble") >>,
      \* case Constructor(0, []) of { tag 1 -> 2 ; tag 0 -> -3 }
      << I("Pack", 0, 0),
         I1("Push", 0), I1("CaseJump", 1), I1("Jump", 7),
         I1("Split", 0), I1("PushInt", 2), I1("Jump", 11),
         I1("Push", 0), I1("CaseJump", 0), I1("Jump", 11),
         I1("PushInt", -3) >>,
      \* if primIntLT 0 2 then 2 else -3
      << I1("PushInt", 2), I1("PushInt", 0), I0("IntLT"), I1("JumpFalse", 6),
         I1("PushInt", 2), I1("Jump", 7), I1("PushInt", -3) >> }

\* (code, assembly_id) pairs a client calls execute with: a program on a new
\* stack, single instructions on any stack
ClientCode(s) ==
    {<< << ins >>, 0 >> : ins \in Instructions}
    \cup {<< << ins >>, 1 >> : ins \in {x \in Instructions : x.op \in UsesAssemblyId}}
    \cup (IF s = <<>> THEN {<< code, 1 >> : code \in Programs} ELSE {})

(***************************************************************************)
(* Nodes (enum Node_).  One record shape for every variant:                *)
(*   Application(func, arg)   n = func, m = arg (addresses)                *)
(*   Int(i)                   n = i                                        *)
(*   Float(f)                 f = n / m (see the Double arithmetic below)  *)
(*   Char(c)                  n = code point                               *)
(*   Combinator(&sc)          n = assembly index, m = index in it          *)
(*   Indirection(node)        n = address                                  *)
(*   Constructor(tag, fields) n = tag, fs = field addresses                *)
(*   Dictionary(&[uint])      fs = the global indices of the slice         *)
(***************************************************************************)
Node_(kind, n, m, fs) == [kind |-> kind, n |-> n, m |-> m, fs |-> fs]

Application(func, arg) == Node_("Application", func, arg, <<>>)

IntNode(i) == Node_("Int", i, 0, <<>>)

Float(f) == Node_("Float", f[1], f[2], <<>>)

Char(c) == Node_("Char", c, 0, <<>>)

Combinator(assembly_index, index) == Node_("Combinator", assembly_index, index, <<>>)

Indirection(node) == Node_("Indirection", node, 0, <<>>)

Constructor(tag, fields) == Node_("Constructor", tag, 0, fields)

Dictionary(dict) == Node_("Dictionary", 0, 0, dict)

(***************************************************************************)
(* Machine arithmetic.  `int` division and remainder truncate toward zero; *)
(* the values reached here stay far inside the 64-bit range.               *)
(***************************************************************************)
Abs(x) == IF x < 0 THEN -x ELSE x

Sign(x) == IF x < 0 THEN -1 ELSE IF x > 0 THEN 1 ELSE 0

IntDiv(l, r) == Sign(l) * Sign(r) * (Abs(l) \div Abs(r))

IntRem(l, r) == l - r * IntDiv(l, r)

\* the closure each Int instruction passes to primitive / primitive_int
IntOp(op, l, r) ==
    CASE op = "Add" -> IntNode(l + r)
      [] op = "Sub" -> IntNode(l - r)
      [] op = "Multiply" -> IntNode(l * r)
      [] op = "Divide" -> IntNode(IntDiv(l, r))
      [] op = "Remainder" -> IntNode(IntRem(l, r))
      [] op = "IntEQ" -> IF l = r THEN Constructor(0, <<>>) ELSE Constructor(1, <<>>)
      [] op = "IntLT" -> IF l < r THEN Constructor(0, <<>>) ELSE Constructor(1, <<>>)
      [] op = "IntLE" -> IF l <= r THEN Constructor(0, <<>>) ELSE Constructor(1, <<>>)
      [] op = "IntGT" -> IF l > r THEN Constructor(0, <<>>) ELSE Constructor(1, <<>>)
      [] op = "IntGE" -> IF l >= r THEN Constructor(0, <<>>) ELSE Constructor(1, <<>>)

(***************************************************************************)
(* f64 values as fractions <<n, d>>: d > 0 a finite value in lowest terms, *)
(* <<1, 0>> and <<-1, 0>> the infinities, <<0, 0>> NaN.  Rounding and the  *)
(* sign of zero are not represented.                                       *)
(***************************************************************************)
RECURSIVE Gcd(_, _)
Gcd(x, y) == IF y = 0 THEN x ELSE Gcd(y, x % y)

Frac(n, d) ==
    IF d = 0 THEN << Sign(n), 0 >>
    ELSE LET g == Gcd(Abs(n), Abs(d)) IN << Sign(d) * (n \div g), Abs(d) \div g >>

NaN == << 0, 0 >>

IsNaN(x) == x = NaN

IsInf(x) == x[2] = 0 /\ x[1] # 0

FAdd(x, y) ==
    IF IsNaN(x) \/ IsNaN(y) THEN NaN
    ELSE IF IsInf(x) /\ IsInf(y) THEN (IF x = y THEN x ELSE NaN)
    ELSE IF IsInf(x) THEN x
    ELSE IF IsInf(y) THEN y
    ELSE Frac(x[1] * y[2] + y[1] * x[2], x[2] * y[2])

FSub(x, y) == FAdd(x, << -y[1], y[2] >>)

FMul(x, y) ==
    IF IsNaN(x) \/ IsNaN(y) THEN NaN
    ELSE IF IsInf(x) \/ IsInf(y) THEN << Sign(x[1]) * Sign(y[1]), 0 >>
    ELSE Frac(x[1] * y[1], x[2] * y[2])

FDiv(x, y) ==
    IF IsNaN(x) \/ IsNaN(y) THEN NaN
    ELSE IF IsInf(x) /\ IsInf(y) THEN NaN
    ELSE IF IsInf(x) THEN << Sign(x[1]) * (IF y[1] < 0 THEN -1 ELSE 1), 0 >>
    ELSE IF IsInf(y) THEN << 0, 1 >>
    ELSE Frac(x[1] * y[2], x[2] * y[1])

FTrunc(x) == IntDiv(x[1], x[2])

FRem(x, y) ==
    IF IsNaN(x) \/ IsNaN(y) \/ IsInf(x) \/ y[1] = 0 THEN NaN
    ELSE IF IsInf(y) THEN x
    ELSE FSub(x, FMul(<< FTrunc(FDiv(x, y)), 1 >>, y))

FLess(x, y) ==
    /\ ~IsNaN(x)
    /\ ~IsNaN(y)
    /\ x # y
    /\ IF IsInf(x) THEN x[1] < 0
       ELSE IF IsInf(y) THEN y[1] > 0
       ELSE x[1] * y[2] < y[1] * x[2]

FEq(x, y) == ~IsNaN(x) /\ ~IsNaN(y) /\ x = y

Bool(b) == IF b THEN Constructor(0, <<>>) ELSE Constructor(1, <<>>)

\* the closure each Double instruction passes to primitive_float
FloatOp(op, l, r) ==
    CASE op = "DoubleAdd" -> Float(FAdd(l, r))
      [] op = "DoubleSub" -> Float(FSub(l, r))
      [] op = "DoubleMultiply" -> Float(FMul(l, r))
      [] op = "DoubleDivide" -> Float(FDiv(l, r))
      [] op = "DoubleRemainder" -> Float(FRem(l, r))
      [] op = "DoubleEQ" -> Bool(FEq(l, r))
      [] op = "DoubleLT" -> Bool(FLess(l, r))
      [] op = "DoubleLE" -> Bool(FLess(l, r) \/ FEq(l, r))
      [] op = "DoubleGT" -> Bool(FLess(r, l))
      [] op = "DoubleGE" -> Bool(FLess(r, l) \/ FEq(l, r))

\* `f as int` of a value that is not finite is undefined: any of these
CastGarbage == {-1, 0}

(***************************************************************************)
(* Types of the inference engine (src/typecheck.rs).  A Type is a head     *)
(* `typ` (a TypeVariable with its id, or a TypeOperator with its name) and *)
(* the vector `types` of its arguments.  A HashMap is a function on the    *)
(* finite set of its keys; a map keyed by TypeVariable is keyed by the id. *)
(***************************************************************************)
TypeVariable(id) == [k |-> "TypeVariable", id |-> id, name |-> ""]

TypeOperator(name) == [k |-> "TypeOperator", id |-> 0, name |-> name]

Type(typ, types) == [typ |-> typ, types |-> types]

Type_new_var(id) == Type(TypeVariable(id), <<>>)

Type_new_op(name, types) == Type(TypeOperator(name), types)

function_type(func, arg) == Type_new_op("->", << func, arg >>)

is_var(t) == t.typ.k = "TypeVariable"

\* HashMap::insert, HashMap::pop, HashMap::find (the value, or the default)
MapInsert(map, key, value) ==
    [x \in DOMAIN map \cup {key} |-> IF x = key THEN value ELSE map[x]]

MapPop(map, key) ==
    IF DOMAIN map \ {key} = {} THEN <<>> ELSE [x \in DOMAIN map \ {key} |-> map[x]]

MapFind(map, key, default) == IF key \in DOMAIN map THEN map[key] ELSE default

\* "prim" + typename + "Add", ... in the order add_primitives inserts them
PrimitiveNames(typename) ==
    IF typename = "Int"
    THEN << "primIntAdd", "primIntSubtract", "primIntMultiply", "primIntDivide",
            "primIntRemainder", "primIntEQ", "primIntLT", "primIntLE", "primIntGT",
            "primIntGE" >>
    ELSE << "primDoubleAdd", "primDoubleSubtract", "primDoubleMultiply",
            "primDoubleDivide", "primDoubleRemainder", "primDoubleEQ", "primDoubleLT",
            "primDoubleLE", "primDoubleGT", "primDoubleGE" >>

add_primitives(globals_, typename) ==
    LET typ == Type_new_op(typename, <<>>)
        arith == function_type(typ, function_type(typ, typ))
        compare == function_type(typ, function_type(typ, Type_new_op("Bool", <<>>)))
        names == PrimitiveNames(typename)
    IN [x \in DOMAIN globals_ \cup {names[k] : k \in 1..10} |->
          IF \E k \in 1..5 : names[k] = x THEN arith
          ELSE IF \E k \in 6..10 : names[k] = x THEN compare
          ELSE globals_[x]]

\* "(", size - 1 commas, ")"
TupleIdent(size) ==
    << "()", "()", "(,)", "(,,)", "(,,,)", "(,,,,)", "(,,,,,)", "(,,,,,,)", "(,,,,,,,)",
       "(,,,,,,,,)" >>[size + 1]

RECURSIVE TupleFunction(_, _)
TupleFunction(i, typ) ==
    IF i < 0 THEN typ
    ELSE TupleFunction(i - 1, Type_new_op("->", << Type_new_var(i), typ >>))

create_tuple_type(size) ==
    LET var_list == [i \in 1..size |-> Type_new_var(i - 1)]
        ident == TupleIdent(size)
    IN << ident, TupleFunction(size - 1, Type_new_op(ident, var_list)) >>

RECURSIVE InsertTuples(_, _)
InsertTuples(globals_, i) ==
    IF i >= 10 THEN globals_
    ELSE LET nt == create_tuple_type(i)
         IN InsertTuples(MapInsert(globals_, nt[1], nt[2]), i + 1)

\* namedTypes of TypeEnvironment::new()
NewNamedTypes ==
    LET int == Type_new_op("Int", <<>>)
        double == Type_new_op("Double", <<>>)
        var == Type_new_var(-10)
        list == Type_new_op("[]", << var >>)
        g1 == add_primitives(add_primitives(<<>>, "Int"), "Double")
        g2 == MapInsert(g1, "primIntToDouble", function_type(int, double))
        g3 == MapInsert(g2, "primDoubleToInt", function_type(double, int))
        g4 == MapInsert(g3, "[]", list)
        g5 == MapInsert(g4, ":", function_type(var, function_type(list, list)))
    IN InsertTuples(g5, 0)

\* Substitution { subs: HashMap::new(), constraints: HashMap::new() }
NewSubstitution == [subs |-> <<>>, constraints |-> <<>>]

(***************************************************************************)
(* State.                                                                  *)
(*   assembly, globals  the fields of struct VM                            *)
(*   heap               every Node allocated so far (Node::new)            *)
(*   frames             the activations of VM::execute, innermost last;    *)
(*                      `stack` is the vector that activation works on     *)
(*   result             what VM::evaluate returned                         *)
(*   aborted            "" or the message of the failure that ended the run*)
(*   calls              top-level calls made so far                        *)
(*   last               the step just taken and the stack it started from  *)
(*   reductions         the redex roots whose combinator code was entered  *)
(*   forcings           (node, WHNF) of every completed Eval, in order     *)
(*   main               the run of execute_main                            *)
(*   namedTypes, constraints, instances, variableIndex, assemblies         *)
(*                      the fields of struct TypeEnvironment               *)
(*   scopes             the chain of TypeScopes (vars, non_generic) of the *)
(*                      typechecking run in progress, innermost last       *)
(*   subs               the Substitution of that run                       *)
(*   failed             "" or the message of the failure that ended the    *)
(*                      typechecking task                                  *)
(*   allocated          the ids TypeEnvironment::new_var returned, in order*)
(*   lastType           the typechecker operation just done, with its      *)
(*                      arguments and results                              *)
(*   ops                the number of operations done on the environment   *)
(*   program            the Module that typecheck_module typed in place,   *)
(*                      <<>> while there is none                           *)
(*   entered            for each open scope, the namedTypes map at the     *)
(*                      time the scope was created                         *)
(***************************************************************************)
VARIABLES assembly, globals, heap, frames, result, aborted, calls, last,
          reductions, forcings, main,
          namedTypes, constraints, instances, variableIndex, assemblies, scopes,
          subs, failed, allocated, lastType, ops, program, entered,
          lexer, parsed

vars == << assembly, globals, heap, frames, result, aborted, calls, last,
           reductions, forcings, main,
           namedTypes, constraints, instances, variableIndex, assemblies, scopes,
           subs, failed, allocated, lastType, ops, program, entered,
           lexer, parsed >>

\* the state of the virtual machine, of the type checker and of the parser
vmvars == << assembly, globals, heap, frames, result, aborted, calls, last,
             reductions, forcings, main >>

tvars == << namedTypes, constraints, instances, variableIndex, assemblies, scopes,
            subs, failed, allocated, lastType, ops, program, entered >>

pvars == << lexer, parsed >>

\* last: the instruction just executed (op), the stack it started from (pre),
\* the depth of its activation, the arm taken, the top-level call it belongs
\* to, and the instruction, stack and depth of the step before it
NoLast ==
    [op |-> I0("none"), pre |-> <<>>, depth |-> 0, branch |-> "", call |-> 0,
     op0 |-> I0("none"), pre0 |-> <<>>, depth0 |-> 0]

Did(op, pre, depth, branch) ==
    [op |-> op, pre |-> pre, depth |-> depth, branch |-> branch, call |-> calls,
     op0 |-> last.op, pre0 |-> last.pre, depth0 |-> last.depth]

\* An activation of execute(stack, code, assembly_id).  kind says who called
\* it, arity is the callee combinator's arity; root (the node being forced or
\* reduced) and entry (the caller's stack when the instruction began) only
\* record the call for the properties below.
Frame(kind, code, stack, assembly_id, arity, root, entry) ==
    [kind |-> kind, code |-> code, i |-> 0, stack |-> stack,
     assembly_id |-> assembly_id, arity |-> arity, root |-> root, entry |-> entry]

Cur == frames[Len(frames)]

Running == aborted = "" /\ frames # <<>> /\ Cur.i < Len(Cur.code)

Finished == aborted = "" /\ frames # <<>> /\ Cur.i >= Len(Cur.code)

\* code[i]
Ins == Cur.code[Cur.i + 1]

At(op) == Running /\ Ins.op = op

Top(s) == s[Len(s)]

Front(s, n) == SubSeq(s, 1, Len(s) - n)

\* the node tree below an address, for comparing nodes structurally
RECURSIVE Tree(_, _)
Tree(h, a) ==
    LET x == h[a] IN
    [kind |-> x.kind,
     n |-> IF x.kind \in {"Application", "Indirection"} THEN 0 ELSE x.n,
     m |-> IF x.kind = "Application" THEN 0 ELSE x.m,
     kids |-> CASE x.kind = "Application" -> << Tree(h, x.n), Tree(h, x.m) >>
                [] x.kind = "Indirection" -> << Tree(h, x.n) >>
                [] x.kind = "Constructor" -> [k \in DOMAIN x.fs |-> Tree(h, x.fs[k])]
                [] OTHER -> <<>>,
     dict |-> IF x.kind = "Dictionary" THEN x.fs ELSE <<>>]

\* execute_main: not called ("none"), evaluating main ("running"), returned
\* ("done") with its Option<VMResult> (None is <<>>, Some(x) is << x >>)
NoMain == [state |-> "none", result |-> <<>>]

NoType == [op |-> "none"]

\* no TypeEnvironment has been created
NoTypeEnvironment ==
    /\ namedTypes = <<>>
    /\ constraints = <<>>
    /\ instances = <<>>
    /\ variableIndex = 0
    /\ assemblies = <<>>
    /\ scopes = <<>>
    /\ subs = NewSubstitution
    /\ failed = ""
    /\ allocated = <<>>
    /\ lastType = NoType
    /\ ops = 0
    /\ program = <<>>
    /\ entered = <<>>

\* no parser has been made
NotParsed == [k |-> "NotParsed"]

NoParser ==
    /\ lexer = [tokens |-> <<>>, offset |-> 0]
    /\ parsed = NotParsed

Init ==
    /\ NoParser
    /\ assembly = <<>>
    /\ globals = <<>>
    /\ heap = <<>>
    /\ frames = <<>>
    /\ result = <<>>
    /\ aborted = ""
    /\ calls = 0
    /\ last = NoLast
    /\ reductions = <<>>
    /\ forcings = <<>>
    /\ main = NoMain
    /\ NoTypeEnvironment

\* fail!, a failed assert!, a bounds check, pop of an empty vector: the task
\* unwinds and every value it owned is dropped
Fail(msg) ==
    /\ aborted' = msg
    /\ assembly' = <<>>
    /\ globals' = <<>>
    /\ heap' = <<>>
    /\ frames' = <<>>
    /\ result' = <<>>
    /\ calls' = 0
    /\ last' = NoLast
    /\ reductions' = <<>>
    /\ forcings' = <<>>
    /\ main' = NoMain
    /\ UNCHANGED << tvars, pvars >>

\* the current activation goes on with stack s and instruction pointer i
Step(s, i, h, branch) ==
    /\ frames' = [frames EXCEPT ![Len(frames)] = [@ EXCEPT !.stack = s, !.i = i]]
    /\ heap' = h
    /\ last' = Did(Ins, Cur.stack, Len(frames), branch)
    /\ UNCHANGED << tvars, pvars, main, assembly, globals, result, aborted, calls, reductions, forcings >>

\* push a freshly allocated node and go to the next instruction
PushNew(s, node) == Step(Append(s, Len(heap) + 1), Cur.i + 1, Append(heap, node), "")

\* mutant of AddAssemblyGlobals: the table holds the last assembly only
AddAssemblyGlobalsAnew(gl, assembly_index, a) ==
    [index \in 1..Len(a.superCombinators) |-> << assembly_index, index - 1 >>]

AddAssemblyGlobals(gl, assembly_index, a) ==
    gl \o [index \in 1..Len(a.superCombinators) |-> << assembly_index, index - 1 >>]

AddAssembly ==
    /\ aborted = ""
    /\ main.state = "none"
    /\ calls = 0
    /\ Len(assembly) < Len(Assemblies)
    /\ LET a == Assemblies[Len(assembly) + 1] IN
         /\ assembly' = Append(assembly, a)
         /\ globals' = AddAssemblyGlobals(globals, Len(assembly), a)
    /\ UNCHANGED << tvars, pvars, main, heap, frames, result, aborted, calls, last, reductions, forcings >>

\* a client calls vm.execute(&mut stack, code, assembly_id) on its stack
Execute ==
    /\ aborted = ""
    /\ main.state = "none"
    /\ calls < MaxCalls
    /\ frames = <<>> \/ (Len(frames) = 1 /\ Finished /\ Cur.kind = "execute")
    /\ LET s == IF frames = <<>> THEN <<>> ELSE Cur.stack IN
         \E c \in ClientCode(s) : frames' = << Frame("execute", c[1], s, c[2], 0, 0, <<>>) >>
    /\ calls' = calls + 1
    /\ UNCHANGED << tvars, pvars, main, assembly, globals, heap, result, aborted, last, reductions, forcings >>

\* vm.evaluate(code, assembly_id): a new stack, the first execute
Evaluate ==
    /\ aborted = ""
    /\ main.state = "none"
    /\ calls < MaxCalls
    /\ frames = <<>>
    /\ \E code \in Programs, assembly_id \in 0..1 :
         frames' = << Frame("evaluate", code, <<>>, assembly_id, 0, 0, <<>>) >>
    /\ calls' = calls + 1
    /\ last' = NoLast
    /\ UNCHANGED << tvars, pvars, main, assembly, globals, heap, result, aborted, reductions, forcings >>

\* evaluate: self.execute(&mut stack, evalCode, assembly_id)
EvaluateEval ==
    /\ Finished
    /\ Cur.kind = "evaluate"
    /\ frames' = << Frame("evaluate2", evalCode, Cur.stack, Cur.assembly_id, 0, 0, <<>>) >>
    /\ last' = NoLast
    /\ UNCHANGED << tvars, pvars, main, assembly, globals, heap, result, aborted, calls, reductions, forcings >>

\* evaluate: assert_eq!(stack.len(), 1); stack[0].borrow().clone()
EvaluateReturn ==
    /\ Finished
    /\ Cur.kind = "evaluate2"
    /\ IF Len(Cur.stack) # 1 THEN Fail("assertion failed: stack.len() == 1")
       ELSE /\ result' = << heap[Cur.stack[1]] >>
            /\ frames' = <<>>
            /\ last' = Did(I0("evaluate"), Cur.stack, 1, "")
            /\ UNCHANGED << tvars, pvars, main, assembly, globals, heap, aborted, calls, reductions, forcings >>

(***************************************************************************)
(* VM::execute, one action per instruction arm.                            *)
(***************************************************************************)

\* mutant of Operands: the operands taken in the other order
OperandsSwapped(s) == << s[Len(s) - 1], s[Len(s)] >>

\* let l = stack.pop(); let r = stack.pop();
Operands(s) == << s[Len(s)], s[Len(s) - 1] >>

\* primitive_int(stack, f) for the Int instructions (primitive wraps f in Int)
primitive_int ==
    /\ Running
    /\ Ins.op \in {"Add", "Sub", "Multiply", "Divide", "Remainder",
                   "IntEQ", "IntLT", "IntLE", "IntGT", "IntGE"}
    /\ LET s == Cur.stack IN
       IF Len(s) < 2 THEN Fail("pop: empty vector")
       ELSE LET l == heap[Operands(s)[1]]
                r == heap[Operands(s)[2]]
            IN IF l.kind # "Int" \/ r.kind # "Int"
               THEN Fail("Expected fully evaluted numbers in primitive instruction")
               ELSE IF Ins.op \in {"Divide", "Remainder"} /\ r.n = 0
               THEN Fail("attempted to divide by zero")
               ELSE PushNew(Front(s, 2), IntOp(Ins.op, l.n, r.n))

\* primitive_float(stack, f) for the Double instructions
primitive_float ==
    /\ Running
    /\ Ins.op \in {"DoubleAdd", "DoubleSub", "DoubleMultiply", "DoubleDivide",
                   "DoubleRemainder", "DoubleEQ", "DoubleLT", "DoubleLE", "DoubleGT",
                   "DoubleGE"}
    /\ LET s == Cur.stack IN
       IF Len(s) < 2 THEN Fail("pop: empty vector")
       ELSE LET l == heap[Operands(s)[1]]
                r == heap[Operands(s)[2]]
            IN IF l.kind # "Float" \/ r.kind # "Float"
               THEN Fail("Expected fully evaluted numbers in primitive instruction")
               ELSE PushNew(Front(s, 2), FloatOp(Ins.op, << l.n, l.m >>, << r.n, r.m >>))

IntToDouble ==
    /\ At("IntToDouble")
    /\ LET s == Cur.stack IN
       IF s = <<>> THEN Fail("pop: empty vector")
       ELSE IF heap[Top(s)].kind # "Int" THEN Fail("Excpected Int in Int -> Double cast")
       ELSE PushNew(Front(s, 1), Float(<< heap[Top(s)].n, 1 >>))

DoubleToInt ==
    /\ At("DoubleToInt")
    /\ LET s == Cur.stack IN
       IF s = <<>> THEN Fail("pop: empty vector")
       ELSE IF heap[Top(s)].kind # "Float"
       THEN Fail("Excpected Double in Double -> Int cast")
       ELSE LET f == << heap[Top(s)].n, heap[Top(s)].m >> IN
            IF f[2] = 0
            THEN \E v \in CastGarbage : PushNew(Front(s, 1), IntNode(v))
            ELSE PushNew(Front(s, 1), IntNode(FTrunc(f)))

PushInt == At("PushInt") /\ PushNew(Cur.stack, IntNode(Ins.a))

PushFloat == At("PushFloat") /\ PushNew(Cur.stack, Float(<< Ins.a, Ins.b >>))

PushChar == At("PushChar") /\ PushNew(Cur.stack, Char(Ins.a))

Push ==
    /\ At("Push")
    /\ IF Ins.a >= Len(Cur.stack) THEN Fail("index out of bounds")
       ELSE Step(Append(Cur.stack, Cur.stack[Ins.a + 1]), Cur.i + 1, heap, "")

PushGlobal ==
    /\ At("PushGlobal")
    /\ IF Ins.a >= Len(globals) THEN Fail("index out of bounds")
       ELSE PushNew(Cur.stack, Combinator(globals[Ins.a + 1][1], globals[Ins.a + 1][2]))

Mkap ==
    /\ At("Mkap")
    /\ LET s == Cur.stack IN
       IF Len(s) < 2 THEN Fail("assertion failed: stack.len() >= 2")
       ELSE PushNew(Front(s, 2), Application(s[Len(s)], s[Len(s) - 1]))

\* mutant of EvalCallerStack: the top is copied, not popped
EvalCallerStackKept(s) == s

\* Eval: what stack.pop() leaves on the caller's stack while [Unwind] runs
EvalCallerStack(s) == Front(s, 1)

\* Eval: the top moves to a new stack on which [Unwind] runs
Eval ==
    /\ At("Eval")
    /\ IF Cur.stack = <<>> THEN Fail("pop: empty vector")
       ELSE /\ frames' = Append([frames EXCEPT ![Len(frames)].stack =
                                                  EvalCallerStack(Cur.stack)],
                                Frame("eval", unwindCode, << Top(Cur.stack) >>,
                                      Cur.assembly_id, 0, Top(Cur.stack), Cur.stack))
            /\ last' = Did(Ins, Cur.stack, Len(frames), "")
            /\ UNCHANGED << tvars, pvars, main, assembly, globals, heap, result, aborted, calls, reductions,
                            forcings >>

\* Eval, after the inner execute returned: stack.push(newStack.pop())
EvalStack(caller, newStack) == Append(caller, Top(newStack))

EvalReturn ==
    /\ Finished
    /\ Cur.kind = "eval"
    /\ LET caller == frames[Len(frames) - 1] IN
         /\ frames' = [k \in 1..(Len(frames) - 1) |->
                         IF k = Len(frames) - 1
                         THEN [caller EXCEPT !.stack = EvalStack(caller.stack, Cur.stack),
                                             !.i = caller.i + 1]
                         ELSE frames[k]]
         /\ forcings' = Append(forcings, [node |-> Cur.root,
                                          whnf |-> Tree(heap, Top(Cur.stack)),
                                          under |-> caller.stack])
         /\ last' = Did(I0("EvalReturn"), Cur.entry, Len(frames) - 1,
                         IF Len(Cur.stack) = 1 THEN "one" ELSE "many")
    /\ UNCHANGED << tvars, pvars, main, assembly, globals, heap, result, aborted, calls, reductions >>

Pop ==
    /\ At("Pop")
    /\ IF Ins.a > Len(Cur.stack) THEN Fail("pop: empty vector")
       ELSE Step(Front(Cur.stack, Ins.a), Cur.i + 1, heap, "")

\* mutant of UpdateStack: the index counted down from the top
UpdateStackFromTop(s, index, node) == [s EXCEPT ![Len(s) - index] = node]

\* stack[index] = node
UpdateStack(s, index, node) == [s EXCEPT ![index + 1] = node]

\* mutant of UpdateNode: the node that the slot held is overwritten as well
UpdateNodeInPlace(h, s, index) ==
    Append([h EXCEPT ![s[index + 1]] = Indirection(Top(s))], Indirection(Top(s)))

\* Node::new(Indirection(stack[stack.len() - 1].clone())): a new node
UpdateNode(h, s, index) == Append(h, Indirection(Top(s)))

Update ==
    /\ At("Update")
    /\ LET s == Cur.stack IN
       IF s = <<>> \/ Ins.a >= Len(s) THEN Fail("index out of bounds")
       ELSE Step(UpdateStack(s, Ins.a, Len(heap) + 1), Cur.i + 1,
                 UpdateNode(heap, s, Ins.a), "")

Slide ==
    /\ At("Slide")
    /\ LET s == Cur.stack IN
       IF Len(s) < Ins.a + 1 THEN Fail("pop: empty vector")
       ELSE Step(Append(Front(s, Ins.a + 1), Top(s)), Cur.i + 1, heap, "")

\* Split: the fields are pushed first to last
SplitStack(s, fields) == Front(s, 1) \o fields

Split ==
    /\ At("Split")
    /\ LET s == Cur.stack IN
       IF s = <<>> THEN Fail("pop: empty vector")
       ELSE IF heap[Top(s)].kind # "Constructor"
       THEN Fail("Expected constructor in Split instruction")
       ELSE Step(SplitStack(s, heap[Top(s)].fs), Cur.i + 1, heap, "")

\* mutant of PackFields: the fields in stack order, bottom first
PackFieldsStackOrder(s, arity) == [k \in 1..arity |-> s[Len(s) - arity + k]]

\* from_fn(arity, |_| stack.pop()): field k is the k-th node popped
PackFields(s, arity) == [k \in 1..arity |-> s[Len(s) - k + 1]]

Pack ==
    /\ At("Pack")
    /\ LET s == Cur.stack IN
       IF Len(s) < Ins.b THEN Fail("pop: empty vector")
       ELSE PushNew(Front(s, Ins.b), Constructor(Ins.a, PackFields(s, Ins.b)))

\* JumpFalse: where execution goes on, given the node on top
JumpFalseTarget(x, i, address) ==
    IF x.kind = "Constructor" /\ x.n = 1 THEN address ELSE i + 1

JumpFalse ==
    /\ At("JumpFalse")
    /\ LET s == Cur.stack IN
       IF s = <<>> THEN Fail("index out of bounds")
       ELSE Step(Front(s, 1), JumpFalseTarget(heap[Top(s)], Cur.i, Ins.a), heap, "")

\* mutant of CaseJumped: the test is taken as passed when the tags differ
CaseJumpedOnOther(x, jump_tag) == x.n # jump_tag

\* let jumped = ... jump_tag == tag as uint
CaseJumped(x, jump_tag) == x.n = jump_tag

CaseJump ==
    /\ At("CaseJump")
    /\ LET s == Cur.stack IN
       IF s = <<>> THEN Fail("index out of bounds")
       ELSE IF heap[Top(s)].kind # "Constructor"
       THEN Fail("Expected constructor when executing CaseJump")
       ELSE IF CaseJumped(heap[Top(s)], Ins.a)
       THEN Step(s, Cur.i + 2, heap, "match")
       ELSE Step(Front(s, 1), Cur.i + 1, heap, "other")

Jump == At("Jump") /\ Step(Cur.stack, Ins.a, heap, "")

PushDictionary ==
    /\ At("PushDictionary")
    /\ IF Cur.assembly_id >= Len(assembly) THEN Fail("index out of bounds")
       ELSE LET dicts == assembly[Cur.assembly_id + 1].instance_dictionaries IN
            IF Ins.a >= Len(dicts) THEN Fail("index out of bounds")
            ELSE PushNew(Cur.stack, Dictionary(dicts[Ins.a + 1]))

\* mutant of DictionaryStack: the stack of the outermost activation
DictionaryStackOutermost(fs) == fs[1].stack

\* PushDictionaryMember: the stack whose slot 0 holds the dictionary
DictionaryStack(fs) == fs[Len(fs)].stack

PushDictionaryMember ==
    /\ At("PushDictionaryMember")
    /\ LET s == DictionaryStack(frames) IN
       IF s = <<>> THEN Fail("index out of bounds")
       ELSE IF heap[s[1]].kind # "Dictionary"
       THEN Fail("Attempted to retrieve node as dictionary")
       ELSE LET dict == heap[s[1]].fs IN
            IF Ins.a >= Len(dict) THEN Fail("index out of bounds")
            ELSE IF dict[Ins.a + 1] >= Len(globals) THEN Fail("index out of bounds")
            ELSE LET g == globals[dict[Ins.a + 1] + 1] IN
                 PushNew(Cur.stack, Combinator(g[1], g[2]))

(***************************************************************************)
(* Unwind.                                                                 *)
(***************************************************************************)
SuperCombinatorOf(x) == assembly[x.n + 1].superCombinators[x.m + 1]

\* Unwind, Application(func, _): push func and redo the instruction
UnwindApplication ==
    /\ At("Unwind")
    /\ Cur.stack # <<>>
    /\ heap[Top(Cur.stack)].kind = "Application"
    /\ Step(Append(Cur.stack, heap[Top(Cur.stack)].n), Cur.i, heap, "Application")

\* Unwind, Combinator with too few arguments: what is left of the stack
PartialStack(s) == << s[1] >>

UnwindPartial ==
    /\ At("Unwind")
    /\ Cur.stack # <<>>
    /\ heap[Top(Cur.stack)].kind = "Combinator"
    /\ Len(Cur.stack) - 1 < SuperCombinatorOf(heap[Top(Cur.stack)]).arity
    /\ Step(PartialStack(Cur.stack), Cur.i + 1, heap, "partial")

\* the spine slots j in [len - arity - 1, len - 1) of the Rust stack
SpineSlots(s, arity) == (Len(s) - arity)..(Len(s) - 1)

\* mutant of RewriteSpine: the arguments written first to last from the lowest
\* spine slot up
RewriteSpineLeftToRight(h, s, arity) ==
    [j \in DOMAIN s |-> IF j \in SpineSlots(s, arity)
                        THEN h[s[2 * Len(s) - arity - 1 - j]].m ELSE s[j]]

\* stack[j] = arg of the Application in stack[j]
RewriteSpine(h, s, arity) ==
    [j \in DOMAIN s |-> IF j \in SpineSlots(s, arity) THEN h[s[j]].m ELSE s[j]]

\* newStack.push(stack[stack.len() - i - 2]) for i in 0 .. arity
CallArguments(s, arity) == [k \in 1..arity |-> s[Len(s) - k]]

\* the outermost node of the redex: the Application that holds the last
\* argument, or the Combinator itself when it takes none
RedexRoot(s, arity) == s[Len(s) - arity]

\* mutant of CalleeAssemblyId: the callee runs under the caller's assembly
CalleeAssemblyIdOfCaller(comb, caller_assembly_id) == caller_assembly_id

\* self.execute(&mut newStack, comb.instructions, comb.assembly_id)
CalleeAssemblyId(comb, caller_assembly_id) == comb.assembly_id

UnwindCombinator ==
    /\ At("Unwind")
    /\ Cur.stack # <<>>
    /\ heap[Top(Cur.stack)].kind = "Combinator"
    /\ LET s == Cur.stack
           comb == SuperCombinatorOf(heap[Top(s)])
       IN /\ Len(s) - 1 >= comb.arity
          /\ IF \E j \in SpineSlots(s, comb.arity) : heap[s[j]].kind # "Application"
             THEN Fail("Expected Application")
             ELSE LET s2 == RewriteSpine(heap, s, comb.arity) IN
                  /\ frames' = Append([frames EXCEPT ![Len(frames)].stack = s2],
                                      Frame("call", comb.instructions,
                                            CallArguments(s2, comb.arity),
                                            CalleeAssemblyId(comb, Cur.assembly_id),
                                            comb.arity,
                                            RedexRoot(s, comb.arity), s))
                  /\ reductions' = Append(reductions, RedexRoot(s, comb.arity))
                  /\ last' = Did(Ins, s, Len(frames), "Combinator")
                  /\ UNCHANGED << tvars, pvars, main, assembly, globals, heap, result, aborted, calls,
                                  forcings >>

\* mutant of CallStack: only the arguments are popped, not the combinator
CallStackKeepsHead(caller, arity, newStack) == Append(Front(caller, arity), Top(newStack))

\* after the callee returned: pop arity + 1 nodes, push the result
CallStack(caller, arity, newStack) == Append(Front(caller, arity + 1), Top(newStack))

\* assert_eq!(newStack.len(), 1)
CalleeOk(newStack) == Len(newStack) = 1

\* the callee frame is over: the assertion, the pops and the push, then
\* Unwind is redone
CallReturn ==
    /\ Finished
    /\ Cur.kind = "call"
    /\ IF ~CalleeOk(Cur.stack) THEN Fail("assertion failed: newStack.len() == 1")
       ELSE LET caller == frames[Len(frames) - 1] IN
            /\ frames' = [k \in 1..(Len(frames) - 1) |->
                            IF k = Len(frames) - 1
                            THEN [caller EXCEPT
                                    !.stack = CallStack(caller.stack, Cur.arity, Cur.stack)]
                            ELSE frames[k]]
            /\ last' = Did(I0("CallReturn"), Cur.entry, Len(frames) - 1,
                            IF Len(Cur.stack) = 1 THEN "one" ELSE "many")
            /\ UNCHANGED << tvars, pvars, main, assembly, globals, heap, result, aborted, calls, reductions,
                            forcings >>

\* Unwind, Indirection(node): the top becomes node, redo the instruction
UnwindIndirection ==
    /\ At("Unwind")
    /\ Cur.stack # <<>>
    /\ heap[Top(Cur.stack)].kind = "Indirection"
    /\ Step([Cur.stack EXCEPT ![Len(Cur.stack)] = heap[Top(Cur.stack)].n], Cur.i, heap,
            "Indirection")

\* Unwind, any other node (and the bounds failure on an empty stack)
UnwindValue ==
    /\ At("Unwind")
    /\ IF Cur.stack = <<>> THEN Fail("index out of bounds")
       ELSE /\ heap[Top(Cur.stack)].kind
                 \notin {"Application", "Combinator", "Indirection"}
            /\ Step(Cur.stack, Cur.i + 1, heap, "value")

(***************************************************************************)
(* extract_result and execute_main.                                        *)
(***************************************************************************)
None == <<>>

Some(x) == << x >>

\* enum VMResult; DoubleResult holds the fraction n / m
IntResult(i) == [kind |-> "IntResult", n |-> i, m |-> 0, kids |-> <<>>]

DoubleResult(f) == [kind |-> "DoubleResult", n |-> f[1], m |-> f[2], kids |-> <<>>]

ConstructorResult(tag, children) ==
    [kind |-> "ConstructorResult", n |-> tag, m |-> 0, kids |-> children]

\* a field that does not extract is left out
RECURSIVE extract_resultSkipping(_, _)
extract_resultSkipping(h, node) ==
    CASE node.kind = "Constructor" ->
           LET rs == [k \in DOMAIN node.fs |-> extract_resultSkipping(h, h[node.fs[k]])]
               kept == SelectSeq(rs, LAMBDA r : r # None)
           IN Some(ConstructorResult(node.n, [k \in DOMAIN kept |-> kept[k][1]]))
      [] node.kind = "Int" -> Some(IntResult(node.n))
      [] node.kind = "Float" -> Some(DoubleResult(<< node.n, node.m >>))
      [] OTHER -> None

RECURSIVE extract_result(_, _)
extract_result(h, node) ==
    CASE node.kind = "Constructor" ->
           LET rs == [k \in DOMAIN node.fs |-> extract_result(h, h[node.fs[k]])]
           IN IF \E k \in DOMAIN rs : rs[k] = None THEN None
              ELSE Some(ConstructorResult(node.n, [k \in DOMAIN rs |-> rs[k][1]]))
      [] node.kind = "Int" -> Some(IntResult(node.n))
      [] node.kind = "Float" -> Some(DoubleResult(<< node.n, node.m >>))
      [] OTHER -> None

\* vm.assembly.iter().flat_map(|a| a.superCombinators.iter()).find(..): the
\* super-combinators named main, in the order of the iteration
FindMain(as) ==
    LET all == [k \in 1..Len(as) |->
                  SelectSeq(as[k].superCombinators, LAMBDA sc : sc.name = "main")]
        RECURSIVE Flat(_)
        Flat(k) == IF k > Len(as) THEN <<>> ELSE all[k] \o Flat(k + 1)
    IN Flat(1)

\* execute_main up to the call of vm.evaluate, on a VM of its own
ExecuteMain ==
    /\ aborted = ""
    /\ main.state = "none"
    /\ assembly = <<>> /\ frames = <<>> /\ calls = 0
    /\ \E a \in MainAssemblies :
         LET x == FindMain(<< a >>) IN
         IF x = <<>>
         THEN /\ main' = [state |-> "done", result |-> None]
              /\ assembly' = << a >>
              /\ globals' = AddAssemblyGlobals(globals, 0, a)
              /\ UNCHANGED << tvars, pvars, heap, frames, result, aborted, calls, last,
                              reductions, forcings >>
         ELSE IF x[1].arity # 0 THEN Fail("assertion failed: sc.arity == 0")
         ELSE /\ main' = [state |-> "running", result |-> None]
              /\ assembly' = << a >>
              /\ globals' = AddAssemblyGlobals(globals, 0, a)
              /\ frames' = << Frame("evaluate", x[1].instructions, <<>>,
                                    x[1].assembly_id, 0, 0, <<>>) >>
              /\ calls' = calls + 1
              /\ last' = NoLast
              /\ UNCHANGED << tvars, pvars, heap, result, aborted, reductions, forcings >>

\* execute_main: extract_result(result)
ExecuteMainReturn ==
    /\ aborted = ""
    /\ main.state = "running"
    /\ frames = <<>> /\ result # <<>>
    /\ main' = [state |-> "done", result |-> extract_result(heap, result[1])]
    /\ UNCHANGED << tvars, pvars, assembly, globals, heap, frames, result, aborted, calls,
                    last, reductions, forcings >>

Next ==
    \/ AddAssembly
    \/ ExecuteMain
    \/ ExecuteMainReturn
    \/ Execute
    \/ Evaluate
    \/ EvaluateEval
    \/ EvaluateReturn
    \/ primitive_int
    \/ primitive_float
    \/ IntToDouble
    \/ DoubleToInt
    \/ PushInt
    \/ PushFloat
    \/ PushChar
    \/ Push
    \/ PushGlobal
    \/ Mkap
    \/ Eval
    \/ EvalReturn
    \/ Pop
    \/ Update
    \/ UnwindApplication
    \/ UnwindPartial
    \/ UnwindCombinator
    \/ CallReturn
    \/ UnwindIndirection
    \/ UnwindValue
    \/ Slide
    \/ Split
    \/ Pack
    \/ JumpFalse
    \/ CaseJump
    \/ Jump
    \/ PushDictionary
    \/ PushDictionaryMember

Spec == Init /\ [][Next]_vars

(***************************************************************************)
(* The type inference engine (src/typecheck.rs).  A function of the source *)
(* that changes what it borrows mutably is an operator that returns the    *)
(* new values in a record; `env` is the TypeEnvironment as a record of its *)
(* fields (with the ids new_var has handed out), `err` the message of a    *)
(* fail! ("" when there was none).  Where the source iterates over a       *)
(* HashMap the keys are taken in ascending order; the order only shows in  *)
(* the order of the class names in a constraint list.                      *)
(***************************************************************************)
Env ==
    [namedTypes |-> namedTypes, constraints |-> constraints, instances |-> instances,
     variableIndex |-> variableIndex, assemblies |-> assemblies,
     allocated |-> allocated]

\* let value: the body with the value in the place of its argument
With(value, Body(_)) == Body(value)

\* Constraint { class, variables }
Constraint(class, variable) == [class |-> class, variables |-> << variable >>]

\* TypeEnvironment::new_var: the environment afterwards (the variable returned
\* is the one with id variableIndex)
new_var(env) ==
    [env EXCEPT !.variableIndex = @ + 1, !.allocated = Append(@, env.variableIndex + 1)]

\* the elements of a set of numbers in ascending order
SortedKeys(S) ==
    [k \in 1..Cardinality(S) |-> CHOOSE x \in S : Cardinality({y \in S : y < x}) = k - 1]

\* the ids of the variables of a type
RECURSIVE VarsOf(_)
VarsOf(t) ==
    (IF is_var(t) THEN {t.typ.id} ELSE {})
        \cup UNION {VarsOf(t.types[i]) : i \in DOMAIN t.types}

RECURSIVE occurs(_, _)
occurs(type_var, inType) ==
    \/ is_var(inType) /\ type_var = inType.typ.id
    \/ \E i \in DOMAIN inType.types : occurs(type_var, inType.types[i])

\* for c in subs_constraints.iter(): push c unless to_update has it
RECURSIVE PushMissing(_, _)
PushMissing(to_update, cs) ==
    IF cs = <<>> THEN to_update
    ELSE PushMissing(IF \E i \in DOMAIN to_update : to_update[i] = Head(cs)
                     THEN to_update ELSE Append(to_update, Head(cs)),
                     Tail(cs))

update_constraints(cons, old, new, subst) ==
    IF is_var(new) /\ old \in DOMAIN subst.constraints
    THEN MapInsert(cons, new.typ.id,
                   PushMissing(MapFind(cons, new.typ.id, <<>>), subst.constraints[old]))
    ELSE cons

\* the sequences of a sequence one after the other
Concat(seqs) ==
    LET places == UNION {{<< j, m >> : m \in DOMAIN seqs[j]} : j \in DOMAIN seqs}
        before(p) == {q \in places : q[1] < p[1] \/ (q[1] = p[1] /\ q[2] < p[2])}
        place(k) == CHOOSE p \in places : Cardinality(before(p)) = k - 1
    IN [k \in 1..Cardinality(places) |-> seqs[place(k)[1]][place(k)[2]]]

\* replace, in two passes over old: the type that it leaves in old ...
RECURSIVE replace_type(_, _)
replace_type(old, subst) ==
    LET replaced == is_var(old) /\ old.typ.id \in DOMAIN subst.subs
        x == subst.subs[old.typ.id]
        old1 == IF ~replaced THEN old
                ELSE IF Len(old.types) > 0 THEN Type(x.typ, old.types)
                ELSE x
    IN Type(old1.typ, [i \in DOMAIN old1.types |-> replace_type(old1.types[i], subst)])

\* ... and the calls of update_constraints that it makes and that change the
\* constraints (the new type is a variable and the old one has constraints
\* in subs), in order, each as << old, new >>
RECURSIVE replace_updates(_, _)
replace_updates(old, subst) ==
    LET replaced == is_var(old) /\ old.typ.id \in DOMAIN subst.subs
        x == subst.subs[old.typ.id]
        old1 == IF ~replaced THEN old
                ELSE IF Len(old.types) > 0 THEN Type(x.typ, old.types)
                ELSE x
    IN (IF replaced /\ is_var(x) /\ old.typ.id \in DOMAIN subst.constraints
        THEN << << old.typ.id, x >> >> ELSE <<>>)
           \o Concat([i \in DOMAIN old1.types |-> replace_updates(old1.types[i], subst)])

RECURSIVE update_all(_, _, _)
update_all(cons, updates, subst) ==
    IF updates = <<>> THEN cons
    ELSE update_all(update_constraints(cons, Head(updates)[1], Head(updates)[2], subst),
                    Tail(updates), subst)

\* replace(constraints, old, subs): the constraints and the type afterwards
replace(cons, old, subst) ==
    [constraints |-> update_all(cons, replace_updates(old, subst), subst),
     typ |-> replace_type(old, subst)]

\* Type == Type: equality up to a renaming of the variables
RECURSIVE type_eq(_, _, _)
RECURSIVE type_eq_types(_, _, _, _)
type_eq(mapping, lhs, rhs) ==
    IF is_var(lhs) # is_var(rhs) THEN [eq |-> FALSE, mapping |-> mapping]
    ELSE IF is_var(lhs) /\ rhs.typ.id \in DOMAIN mapping
    THEN [eq |-> mapping[rhs.typ.id] = lhs.typ.id, mapping |-> mapping]
    ELSE IF ~is_var(lhs) /\ lhs.typ.name # rhs.typ.name
    THEN [eq |-> FALSE, mapping |-> mapping]
    ELSE IF Len(lhs.types) # Len(rhs.types) THEN [eq |-> FALSE, mapping |-> mapping]
    ELSE type_eq_types(IF is_var(lhs) THEN MapInsert(mapping, rhs.typ.id, lhs.typ.id)
                       ELSE mapping, lhs, rhs, 1)

type_eq_types(mapping, lhs, rhs, i) ==
    IF i > Len(lhs.types) THEN [eq |-> TRUE, mapping |-> mapping]
    ELSE LET e == type_eq(mapping, lhs.types[i], rhs.types[i])
         IN IF e.eq THEN type_eq_types(e.mapping, lhs, rhs, i + 1) ELSE e

TypeEq(lhs, rhs) == type_eq(<<>>, lhs, rhs).eq

\* Module::find_instance: the instances of the module that match, in order
find_instance(module, classname, typ) ==
    SelectSeq(module.instances,
              LAMBDA instance : classname = instance.classname /\ TypeEq(instance.typ, typ))

\* TypeEnvironment::has_instance and check_instance_constraints
RECURSIVE has_instance(_, _, _)
RECURSIVE check_instance_constraints(_, _, _, _)
has_instance(env, class, searched_type) ==
    IF \E i \in DOMAIN env.instances :
           /\ class = env.instances[i][1]
           /\ env.instances[i][2].typ = searched_type.typ
    THEN TRUE
    ELSE LET found == {a \in DOMAIN env.assemblies :
                          find_instance(env.assemblies[a], class, searched_type) # <<>>}
         IN IF found = {} THEN FALSE
            ELSE LET first == CHOOSE a \in found : \A b \in found : a <= b
                     instance == find_instance(env.assemblies[first], class,
                                               searched_type)[1]
                 IN check_instance_constraints(env, instance.constraints,
                                               instance.typ.types, searched_type.types)

check_instance_constraints(env, cs, vars_, types) ==
    \A c \in DOMAIN cs :
        LET variable == cs[c].variables[1]
            positions == {p \in DOMAIN vars_ :
                             is_var(vars_[p]) /\ vars_[p].typ.id = variable}
        IN positions # {} =>
             has_instance(env, cs[c].class,
                          types[CHOOSE p \in positions : \A q \in positions : p <= q])

\* replace(constraints, old, subs) does not return: a variable without
\* arguments that subs maps is met again among the arguments of the type put
\* in its place (seen: the variables replaced on the way down to old)
RECURSIVE replace_overflows(_, _, _)
replace_overflows(old, subst, seen) ==
    LET replaced == is_var(old) /\ old.typ.id \in DOMAIN subst.subs
        whole == replaced /\ Len(old.types) = 0
    IN IF whole /\ old.typ.id \in seen THEN TRUE
       ELSE LET old1 == IF whole THEN subst.subs[old.typ.id] ELSE old
                seen1 == IF whole THEN seen \cup {old.typ.id} ELSE seen
            IN \E i \in DOMAIN old1.types : replace_overflows(old1.types[i], subst, seen1)

\* subs.subs.insert(lid, t)
Bind(subst, lid, t) == [subst EXCEPT !.subs = MapInsert(@, lid, t)]

\* the loop of unify_location over the values of subs does not return (and
\* so does no replace with subs that meets such a variable): the stack of the
\* task overflows
Overflows(subst) ==
    \E v \in DOMAIN subst.subs : replace_overflows(subst.subs[v], subst, {})

StackOverflow == "stack overflow in replace"

\* the result of unify_ and of unify_location: what they leave in env, subs,
\* lhs and rhs
Unified(env, subst, lhs, rhs, err) ==
    [env |-> env, subs |-> subst, lhs |-> lhs, rhs |-> rhs, err |-> err]

\* Num built in for Int only
BuiltinInstanceIntOnly(c, name, rhs) ==
    c = "Num" /\ name = "Int" /\ Len(rhs.types) = 0

\* Num is built in for Int and Double, Fractional for Double
BuiltinInstance(c, name, rhs) ==
    \/ c = "Num" /\ name \in {"Int", "Double"} /\ Len(rhs.types) = 0
    \/ c = "Fractional" /\ name = "Double" /\ Len(rhs.types) = 0

\* unify_, (Var, Op): the classes of the variable that the operator type lacks
MissingInstances(env, lid, rhs) ==
    LET cs == MapFind(env.constraints, lid, <<>>)
    IN {c \in {cs[i] : i \in DOMAIN cs} :
           ~has_instance(env, c, rhs) /\ ~BuiltinInstance(c, rhs.typ.name, rhs)}

RECURSIVE unify_(_, _, _, _)
RECURSIVE unify_types(_, _, _, _, _)
unify_(env, subst, lhs, rhs) ==
    CASE is_var(lhs) /\ is_var(rhs) ->
           IF lhs.typ.id = rhs.typ.id THEN Unified(env, subst, lhs, rhs, "")
           ELSE With(replace(env.constraints, Type_new_var(rhs.typ.id), subst), LAMBDA t :
                LET lid == lhs.typ.id
                    subs1 == Bind(subst, lid, t.typ)
                IN IF Overflows(subs1) THEN Unified(env, subs1, lhs, rhs, StackOverflow)
                   ELSE IF lid \in DOMAIN t.constraints
                   THEN Unified([env EXCEPT !.constraints = MapPop(t.constraints, lid)],
                                [subs1 EXCEPT !.constraints =
                                                  MapInsert(@, lid, t.constraints[lid])],
                                lhs, rhs, "")
                   ELSE Unified([env EXCEPT !.constraints = t.constraints], subs1,
                                lhs, rhs, ""))
      [] ~is_var(lhs) /\ ~is_var(rhs) ->
           IF lhs.typ.name # rhs.typ.name \/ Len(lhs.types) # Len(rhs.types)
           THEN Unified(env, subst, lhs, rhs, "Could not unify types")
           ELSE unify_types(env, subst, lhs, rhs, 1)
      [] is_var(lhs) /\ ~is_var(rhs) ->
           IF occurs(lhs.typ.id, rhs)
           THEN Unified(env, subst, lhs, rhs, "Recursive unification")
           ELSE IF Len(lhs.types) # 0 /\ Len(lhs.types) # Len(rhs.types)
           THEN Unified(env, subst, lhs, rhs, "Types do not have the same arity")
           ELSE With(replace(env.constraints, rhs, subst), LAMBDA t :
                With(IF Len(lhs.types) = 0
                     THEN Unified([env EXCEPT !.constraints = t.constraints],
                                  Bind(subst, lhs.typ.id, t.typ), lhs, rhs,
                                  IF Overflows(Bind(subst, lhs.typ.id, t.typ))
                                  THEN StackOverflow ELSE "")
                     ELSE unify_types(env,
                                      Bind(subst, lhs.typ.id, Type_new_op(rhs.typ.name, <<>>)),
                                      lhs, rhs, 1), LAMBDA u :
                IF u.err = "" /\ MissingInstances(u.env, lhs.typ.id, u.rhs) # {}
                THEN [u EXCEPT !.err = "The instance was not found"]
                ELSE u))
      [] OTHER ->
           With(unify_(env, subst, rhs, lhs), LAMBDA u :
           Unified(u.env, u.subs, u.rhs, u.lhs, u.err))

\* for i in range(0, lhs.types.len()), from the argument (counted from 1) i on
unify_types(env, subst, lhs, rhs, i) ==
    IF i > Len(lhs.types) THEN Unified(env, subst, lhs, rhs, "")
    ELSE With(unify_(env, subst, lhs.types[i], rhs.types[i]), LAMBDA u :
         LET lhs1 == [lhs EXCEPT !.types[i] = u.lhs]
             rhs1 == [rhs EXCEPT !.types[i] = u.rhs]
         IN IF u.err # "" THEN Unified(u.env, u.subs, lhs1, rhs1, u.err)
            ELSE IF i < Len(lhs.types)
            THEN With(replace(u.env.constraints, lhs1.types[i + 1], u.subs), LAMBDA l :
                 With(replace(l.constraints, rhs1.types[i + 1], u.subs), LAMBDA r :
                 unify_types([u.env EXCEPT !.constraints = r.constraints], u.subs,
                             [lhs1 EXCEPT !.types[i + 1] = l.typ],
                             [rhs1 EXCEPT !.types[i + 1] = r.typ], i + 1)))
            ELSE Unified(u.env, u.subs, lhs1, rhs1, ""))

\* unify_location, for (_, typ) in subs.subs.mut_iter(): replace with subs2
ReplaceValues(cons, values, keys, subs2) ==
    [constraints |->
         update_all(cons, Concat([k \in DOMAIN keys |->
                                     replace_updates(values[keys[k]], subs2)]), subs2),
     subs |-> [k \in DOMAIN values |-> replace_type(values[k], subs2)]]

unify_location(env, subst, lhs, rhs) ==
    With(unify_(env, subst, lhs, rhs), LAMBDA u :
    IF u.err # "" THEN u
    ELSE With(ReplaceValues(u.env.constraints, u.subs.subs,
                            SortedKeys(DOMAIN u.subs.subs), u.subs), LAMBDA r :
         Unified([u.env EXCEPT !.constraints = r.constraints],
                 [u.subs EXCEPT !.subs = r.subs], u.lhs, u.rhs, "")))

(***************************************************************************)
(* Expressions, patterns, bindings and declarations (module.rs), as        *)
(* records tagged with the name of the variant in k.                       *)
(***************************************************************************)
\* TypedExpr::new: an expression that has no type yet
Untyped == Type_new_var(0)

Identifier(name) == [k |-> "Identifier", name |-> name, typ |-> Untyped]

Number == [k |-> "Number", typ |-> Untyped]

Rational == [k |-> "Rational", typ |-> Untyped]

String == [k |-> "String", typ |-> Untyped]

CharExpr == [k |-> "Char", typ |-> Untyped]

Apply(func, arg) == [k |-> "Apply", func |-> func, arg |-> arg, typ |-> Untyped]

Lambda(arg, body) == [k |-> "Lambda", arg |-> arg, body |-> body, typ |-> Untyped]

Let(bindings, body) ==
    [k |-> "Let", bindings |-> bindings, body |-> body, typ |-> Untyped]

Case(case_expr, alts) ==
    [k |-> "Case", case_expr |-> case_expr, alts |-> alts, typ |-> Untyped]

Alternative(pattern, expression) == [pattern |-> pattern, expression |-> expression]

IdentifierPattern(ident) == [k |-> "IdentifierPattern", ident |-> ident]

NumberPattern == [k |-> "NumberPattern"]

ConstructorPattern(name, patterns) ==
    [k |-> "ConstructorPattern", name |-> name, patterns |-> patterns]

TypeDeclaration(name, typ, context) ==
    [name |-> name, typ |-> typ, context |-> context]

\* Binding { name, expression, typeDecl: Default::default() }
Binding(name, expression) ==
    [name |-> name, expression |-> expression,
     typeDecl |-> TypeDeclaration("", Type_new_var(-1), <<>>)]

(***************************************************************************)
(* TypeScope.  A scope is its vars and its non_generic list; `scopes` is   *)
(* the chain of parents, outermost first, and the functions of TypeScope   *)
(* work on the last one.  The state the checker works on is                *)
(* [env, subs, scopes, err, log]; after a fail! (err # "") nothing acts.   *)
(***************************************************************************)
NewScope == [vars |-> <<>>, non_generic |-> <<>>]

Checker(env, subst, scs) ==
    [env |-> env, subs |-> subst, scopes |-> scs, err |-> "", log |-> <<>>,
     freshened |-> <<>>]

child(S) == [S EXCEPT !.scopes = Append(@, NewScope)]

insert(S, name, t) ==
    LET n == Len(S.scopes)
        nt == S.env.namedTypes
    IN [S EXCEPT !.scopes = IF name \in DOMAIN nt
                            THEN [@ EXCEPT ![n].vars = Append(@, << name, nt[name] >>)]
                            ELSE @,
                 !.env.namedTypes = MapInsert(nt, name, t)]

push_non_generic(S, t) ==
    [S EXCEPT !.scopes[Len(S.scopes)].non_generic = Append(@, t)]

pop_non_generic(S) ==
    [S EXCEPT !.scopes[Len(S.scopes)].non_generic = SubSeq(@, 1, Len(@) - 1)]

\* Drop for TypeScope, with the oldest saved binding restored first
RECURSIVE RestoreOldestFirst(_, _)
RestoreOldestFirst(nt, saved) ==
    IF saved = <<>> THEN nt
    ELSE RestoreOldestFirst(MapInsert(nt, Head(saved)[1], Head(saved)[2]), Tail(saved))

\* Drop for TypeScope: while self.vars.len() > 0 { pop; insert }
RECURSIVE RestoreVars(_, _)
RestoreVars(nt, saved) ==
    IF saved = <<>> THEN nt
    ELSE LET popped == saved[Len(saved)]
         IN RestoreVars(MapInsert(nt, popped[1], popped[2]),
                        SubSeq(saved, 1, Len(saved) - 1))

drop(S) ==
    LET n == Len(S.scopes)
    IN [S EXCEPT !.env.namedTypes = RestoreVars(@, S.scopes[n].vars),
                 !.scopes = SubSeq(@, 1, n - 1)]

is_generic(scs, var) ==
    \A s \in DOMAIN scs :
        \A t \in DOMAIN scs[s].non_generic : ~occurs(var, scs[s].non_generic[t])

\* freshen, in two passes over typ as replace: the generic variables of typ
\* in the order in which freshen meets them ...
RECURSIVE generic_vars(_, _)
generic_vars(scs, typ) ==
    (IF is_var(typ) /\ is_generic(scs, typ.typ.id) THEN << typ.typ.id >> ELSE <<>>)
        \o Concat([i \in DOMAIN typ.types |-> generic_vars(scs, typ.types[i])])

\* ... what it does at each of them: a new variable, which gets the
\* constraints that the old one has by then, and which the mapping keeps
\* when it has none for the old one yet ...
RECURSIVE freshen_vars(_, _, _)
freshen_vars(env, mapping, ids) ==
    IF ids = <<>> THEN [env |-> env, mapping |-> mapping]
    ELSE
    With(new_var(env), LAMBDA env1 :
    With(IF Head(ids) \in DOMAIN env1.constraints
         THEN [env1 EXCEPT !.constraints =
                               MapInsert(@, env1.variableIndex, env1.constraints[Head(ids)])]
         ELSE env1, LAMBDA env2 :
    IF Head(ids) \in DOMAIN mapping
    THEN freshen_vars(env2, mapping, Tail(ids))
    ELSE freshen_vars(env2, MapInsert(mapping, Head(ids), Type_new_var(env2.variableIndex)),
                      Tail(ids))))

\* ... and the copy, with every generic variable as the mapping has it
RECURSIVE freshen_types(_, _, _)
freshen_types(scs, mapping, typ) ==
    Type(IF is_var(typ) /\ is_generic(scs, typ.typ.id)
         THEN mapping[typ.typ.id].typ ELSE typ.typ,
         [i \in DOMAIN typ.types |-> freshen_types(scs, mapping, typ.types[i])])

\* freshen(env, mapping, typ): the environment, the mapping and the copy
freshen(scs, env, mapping, typ) ==
    With(freshen_vars(env, mapping, generic_vars(scs, typ)), LAMBDA r :
    [env |-> r.env, mapping |-> r.mapping, typ |-> freshen_types(scs, r.mapping, typ)])

\* Module::find_type: the types of the module under the name, in the order of
\* the search
NamedIn(decls, name) ==
    SelectSeq(decls, LAMBDA d : d.name = name)

find_type(module, name) ==
    LET binds == NamedIn(module.bindings, name)
        decls == NamedIn(Concat([c \in DOMAIN module.classes |->
                                    module.classes[c].declarations]), name)
        ctors == NamedIn(Concat([d \in DOMAIN module.dataDefinitions |->
                                    module.dataDefinitions[d].constructors]), name)
    IN [b \in DOMAIN binds |-> binds[b].expression.typ]
           \o [d \in DOMAIN decls |-> decls[d].typ]
           \o [c \in DOMAIN ctors |-> ctors[c].typ]

\* TypeEnvironment::find: None or Some(type)
find(env, ident) ==
    IF ident \in DOMAIN env.namedTypes THEN Some(env.namedTypes[ident])
    ELSE With(Concat([a \in DOMAIN env.assemblies |->
                         find_type(env.assemblies[a], ident)]), LAMBDA found :
         IF found = <<>> THEN None ELSE Some(found[1]))

\* a note of one call of freshen: the type and its copy, the scopes, and the
\* ids handed out and the constraints before and after the call
Freshened(S, name, typ, f) ==
    [name |-> name, old |-> typ, new |-> f.typ, scopes |-> S.scopes,
     allocated |-> S.env.allocated,
     before |-> S.env.constraints, after |-> f.env.constraints]

\* TypeScope::fresh: the environment afterwards and None or Some(type)
fresh(S, name) ==
    With(find(S.env, name), LAMBDA x :
    IF x = None THEN [S |-> S, typ |-> None]
    ELSE With(freshen(S.scopes, S.env, <<>>, x[1]), LAMBDA f :
         [S |-> [S EXCEPT !.env = f.env,
                          !.freshened = Append(@, Freshened(S, name, x[1], f))],
          typ |-> Some(f.typ)]))

\* TypeEnvironment::apply: every named type replaced; the calls of
\* update_constraints are those of the names that have any
RECURSIVE SortedNames(_)
SortedNames(S) ==
    IF S = {} THEN <<>>
    ELSE LET least == CHOOSE x \in S : TRUE
         IN << least >> \o SortedNames(S \ {least})

apply(env, subst) ==
    With(env.namedTypes, LAMBDA nt :
    With(SortedNames({name \in DOMAIN nt : replace_updates(nt[name], subst) # <<>>}),
         LAMBDA names :
    [env EXCEPT !.constraints =
                    update_all(@, Concat([n \in DOMAIN names |->
                                             replace_updates(nt[names[n]], subst)]),
                               subst),
                !.namedTypes = [name \in DOMAIN nt |-> replace_type(nt[name], subst)]]))

get_returntype(typ) ==
    LET RECURSIVE ret(_)
        ret(t) == IF ~is_var(t) /\ t.typ.name = "->" THEN ret(t.types[2]) ELSE t
    IN ret(typ)

\* TypeEnvironment::substitute, in two passes over expr as replace: the
\* expression that it leaves ...
RECURSIVE substitute_types(_, _)
substitute_types(subst, expr) ==
    With([expr EXCEPT !.typ = replace_type(@, subst)], LAMBDA e :
    CASE expr.k = "Apply" ->
           [e EXCEPT !.func = substitute_types(subst, @),
                     !.arg = substitute_types(subst, @)]
      [] expr.k = "Let" ->
           [e EXCEPT !.bindings = [b \in DOMAIN @ |->
                                      [@[b] EXCEPT !.expression = substitute_types(subst, @)]],
                     !.body = substitute_types(subst, @)]
      [] expr.k = "Case" ->
           [e EXCEPT !.case_expr = substitute_types(subst, @),
                     !.alts = [a \in DOMAIN @ |->
                                  [@[a] EXCEPT !.expression = substitute_types(subst, @)]]]
      [] expr.k = "Lambda" ->
           [e EXCEPT !.body = substitute_types(subst, @)]
      [] OTHER -> e)

\* ... and the calls of update_constraints of its replace calls, in the order
\* of the walk
RECURSIVE substitute_updates(_, _)
substitute_updates(subst, expr) ==
    replace_updates(expr.typ, subst) \o
    (CASE expr.k = "Apply" ->
            substitute_updates(subst, expr.func) \o substitute_updates(subst, expr.arg)
       [] expr.k = "Let" ->
            Concat([b \in DOMAIN expr.bindings |->
                       substitute_updates(subst, expr.bindings[b].expression)])
                \o substitute_updates(subst, expr.body)
       [] expr.k = "Case" ->
            substitute_updates(subst, expr.case_expr)
                \o Concat([a \in DOMAIN expr.alts |->
                              substitute_updates(subst, expr.alts[a].expression)])
       [] expr.k = "Lambda" -> substitute_updates(subst, expr.body)
       [] OTHER -> <<>>)

substitute(cons, subst, expr) ==
    [constraints |-> update_all(cons, substitute_updates(subst, expr), subst),
     expr |-> substitute_types(subst, expr)]

\* each_type with a var_fn: the variables of a type in the order of the walk
RECURSIVE each_type(_)
each_type(typ) ==
    (IF is_var(typ) THEN << typ.typ.id >> ELSE <<>>)
        \o Concat([i \in DOMAIN typ.types |-> each_type(typ.types[i])])

\* TypeEnvironment::find_constraints
RECURSIVE PushConstraints(_, _, _)
PushConstraints(found, var, cs) ==
    IF cs = <<>> THEN found
    ELSE PushConstraints(IF \E i \in DOMAIN found : found[i].class = Head(cs)
                         THEN found
                         ELSE Append(found, Constraint(Head(cs), var)),
                         var, Tail(cs))

RECURSIVE find_constraints_of(_, _, _)
find_constraints_of(cons, found, variables) ==
    IF variables = <<>> THEN found
    ELSE find_constraints_of(cons,
                             PushConstraints(found, Head(variables),
                                             MapFind(cons, Head(variables), <<>>)),
                             Tail(variables))

find_constraints(env, typ) == find_constraints_of(env.constraints, <<>>, each_type(typ))

(***************************************************************************)
(* The dependency graph of a group of bindings and its strongly connected  *)
(* components (graph.rs).                                                   *)
(***************************************************************************)
\* add_edges: the names an expression refers to
RECURSIVE Referenced(_)
Referenced(expr) ==
    CASE expr.k = "Identifier" -> {expr.name}
      [] expr.k = "Lambda" -> Referenced(expr.body)
      [] expr.k = "Apply" -> Referenced(expr.func) \cup Referenced(expr.arg)
      [] expr.k = "Let" ->
           Referenced(expr.body)
               \cup UNION {Referenced(expr.bindings[b].expression) :
                              b \in DOMAIN expr.bindings}
      [] expr.k = "Case" ->
           Referenced(expr.case_expr)
               \cup UNION {Referenced(expr.alts[a].expression) : a \in DOMAIN expr.alts}
      [] OTHER -> {}

\* map.insert(bind.name, index): the last binding of a name keeps it
VertexOf(bindings, name) ==
    CHOOSE i \in DOMAIN bindings :
        /\ bindings[i].name = name
        /\ \A j \in DOMAIN bindings : bindings[j].name = name => j <= i

build_graph(bindings) ==
    [vertices |-> DOMAIN bindings,
     edges |-> {e \in (DOMAIN bindings) \X (DOMAIN bindings) :
                   \E b \in DOMAIN bindings :
                       /\ e[1] = VertexOf(bindings, bindings[b].name)
                       /\ \E n \in Referenced(bindings[b].expression) :
                              /\ \E j \in DOMAIN bindings : bindings[j].name = n
                              /\ e[2] = VertexOf(bindings, n)}]

RECURSIVE ReachFrom(_, _)
ReachFrom(graph, from) ==
    LET next == from \cup {e[2] : e \in {d \in graph.edges : d[1] \in from}}
    IN IF next = from THEN from ELSE ReachFrom(graph, next)

Component(graph, v) ==
    {w \in graph.vertices : w \in ReachFrom(graph, {v}) /\ v \in ReachFrom(graph, {w})}

\* the components, one that refers to another one after it
RECURSIVE components_from(_, _)
components_from(graph, done) ==
    IF done = graph.vertices THEN <<>>
    ELSE LET ready == {v \in graph.vertices \ done :
                          ReachFrom(graph, {v}) \subseteq done \cup Component(graph, v)}
             v == CHOOSE x \in ready : \A y \in ready : x <= y
         IN << SortedKeys(Component(graph, v)) >>
                \o components_from(graph, done \cup Component(graph, v))

RECURSIVE Reversed(_)
Reversed(s) == IF s = <<>> THEN <<>> ELSE Append(Reversed(Tail(s)), Head(s))

\* the components the other way round: a component before the ones it refers to
TopologicalComponents(graph) == Reversed(components_from(graph, {}))

strongly_connected_components(graph) == components_from(graph, {})

(***************************************************************************)
(* TypeScope::typecheck and what it calls.                                 *)
(***************************************************************************)
Checked(S, expr) == [S |-> S, expr |-> expr]

\* replace(&mut self.env.constraints, typ, subs)
replaced(S, typ) ==
    IF S.err # "" THEN [S |-> S, typ |-> typ]
    ELSE With(replace(S.env.constraints, typ, S.subs), LAMBDA r :
         [S |-> [S EXCEPT !.env.constraints = r.constraints], typ |-> r.typ])

\* unify_location(self.env, subs, location, lhs, rhs)
unify(S, lhs, rhs) ==
    IF S.err # "" THEN [S |-> S, lhs |-> lhs, rhs |-> rhs]
    ELSE With(unify_location(S.env, S.subs, lhs, rhs), LAMBDA u :
         [S |-> [S EXCEPT !.env = u.env, !.subs = u.subs, !.err = u.err],
          lhs |-> u.lhs, rhs |-> u.rhs])

\* self.env.substitute(subs, expr)
substituted(S, expr) ==
    IF S.err # "" THEN Checked(S, expr)
    ELSE With(substitute(S.env.constraints, S.subs, expr), LAMBDA r :
         Checked([S EXCEPT !.env.constraints = r.constraints], r.expr))

\* self.env.new_var()
with_new_var(S) == [S EXCEPT !.env = new_var(@)]

newest(S) == Type_new_var(S.env.variableIndex)

Logged(S, event, name) == [S EXCEPT !.log = Append(@, << event, name >>)]

RECURSIVE typecheck(_, _)
RECURSIVE case_alts(_, _, _, _, _)
RECURSIVE typecheck_pattern(_, _, _)
RECURSIVE pattern_rec(_, _, _, _)
RECURSIVE typecheck_mutually_recursive_bindings(_, _)
RECURSIVE typecheck_groups(_, _, _)
RECURSIVE group_assign(_, _, _)
RECURSIVE group_typecheck(_, _, _)
RECURSIVE group_record(_, _, _)

typecheck(S_, expr_) ==
    IF S_.err # "" THEN Checked(S_, expr_)
    ELSE
    With(TypeEq(expr_.typ, Type_new_var(0)), LAMBDA untyped :
    With(IF untyped THEN with_new_var(S_) ELSE S_, LAMBDA S :
    With(IF untyped THEN [expr_ EXCEPT !.typ = newest(S)] ELSE expr_, LAMBDA expr :
    CASE expr.k = "Number" ->
           Checked([S EXCEPT !.env.constraints =
                                 MapInsert(@, expr.typ.typ.id, << "Num" >>)], expr)
      [] expr.k = "Rational" ->
           Checked([S EXCEPT !.env.constraints =
                                 MapInsert(@, expr.typ.typ.id, << "Fractional" >>)], expr)
      [] expr.k = "String" ->
           Checked(S, [expr EXCEPT !.typ =
                                       Type_new_op("[]", << Type_new_op("Char", <<>>) >>)])
      [] expr.k = "Char" ->
           Checked(S, [expr EXCEPT !.typ = Type_new_op("Char", <<>>)])
      [] expr.k = "Identifier" ->
           With(fresh(S, expr.name), LAMBDA t :
           IF t.typ = None
           THEN Checked([S EXCEPT !.err = "Undefined identifier"], expr)
           ELSE Checked(t.S, [expr EXCEPT !.typ = t.typ[1]]))
      [] expr.k = "Apply" ->
           With(typecheck(S, expr.func), LAMBDA f :
           IF f.S.err # "" THEN Checked(f.S, expr)
           ELSE
           With(replaced(f.S, f.expr.typ), LAMBDA fr :
           With(typecheck(fr.S, expr.arg), LAMBDA a :
           IF a.S.err # "" THEN Checked(a.S, expr)
           ELSE
           With(replaced(a.S, a.expr.typ), LAMBDA ar :
           With(with_new_var(ar.S), LAMBDA S1 :
           With(unify(S1, fr.typ, function_type(ar.typ, newest(S1))), LAMBDA u :
           IF u.S.err # "" THEN Checked(u.S, expr)
           ELSE
           With(replaced(u.S, u.rhs), LAMBDA er :
           Checked(er.S, [expr EXCEPT !.func = [f.expr EXCEPT !.typ = u.lhs],
                                      !.arg = [a.expr EXCEPT !.typ = ar.typ],
                                      !.typ = er.typ.types[2]]))))))))
      [] expr.k = "Lambda" ->
           With(with_new_var(S), LAMBDA S1 :
           With(with_new_var(S1), LAMBDA S2 :
           With(push_non_generic(insert(child(S2), expr.arg, newest(S1)), newest(S1)),
                LAMBDA childScope :
           With(typecheck(childScope, expr.body), LAMBDA b :
           IF b.S.err # "" THEN Checked(drop(b.S), expr)
           ELSE
           With(replaced(drop(b.S), function_type(newest(S1), newest(S2))), LAMBDA er :
           Checked(er.S, [expr EXCEPT !.body = b.expr,
                                      !.typ = [er.typ EXCEPT !.types[2] = b.expr.typ]]))))))
      [] expr.k = "Let" ->
           With(typecheck_mutually_recursive_bindings(child(S), expr.bindings), LAMBDA m :
           IF m.S.err # "" THEN Checked(drop(m.S), expr)
           ELSE
           With(typecheck([m.S EXCEPT !.env = apply(@, m.S.subs)], expr.body), LAMBDA b :
           IF b.S.err # "" THEN Checked(drop(b.S), expr)
           ELSE
           With(replaced(drop(b.S), b.expr.typ), LAMBDA br :
           Checked(br.S, [expr EXCEPT !.bindings = m.bindings,
                                      !.body = [b.expr EXCEPT !.typ = br.typ],
                                      !.typ = br.typ]))))
      [] expr.k = "Case" ->
           With(typecheck(S, expr.case_expr), LAMBDA c :
           IF c.S.err # "" THEN Checked(c.S, expr)
           ELSE
           With(typecheck_pattern(c.S, expr.alts[1].pattern, c.expr.typ), LAMBDA p :
           IF p.S.err # "" THEN Checked(p.S, expr)
           ELSE
           With(typecheck(p.S, expr.alts[1].expression), LAMBDA a :
           IF a.S.err # "" THEN Checked(a.S, expr)
           ELSE
           With(case_alts(a.S, [expr.alts EXCEPT ![1].expression = a.expr], 2,
                          p.match_type, a.expr.typ), LAMBDA rest :
           IF rest.S.err # "" THEN Checked(rest.S, expr)
           ELSE
           With(replaced(rest.S, rest.alts[1].expression.typ), LAMBDA r0 :
           With(replaced(r0.S, rest.match_type), LAMBDA rc :
           Checked(rc.S, [expr EXCEPT !.case_expr = [c.expr EXCEPT !.typ = rc.typ],
                                      !.alts = [rest.alts EXCEPT
                                                   ![1].expression.typ = r0.typ],
                                      !.typ = rest.alt0_]))))))))))

\* the alternatives as a failure leaves them
FailedAlts(S, alts, match_type, alt0_) ==
    [S |-> S, alts |-> alts, match_type |-> match_type, alt0_ |-> alt0_]

\* for alt in alts.mut_iter().skip(1), from the alternative i on
case_alts(S, alts, i, match_type, alt0_) ==
    IF i > Len(alts) \/ S.err # "" THEN FailedAlts(S, alts, match_type, alt0_)
    ELSE
    With(typecheck_pattern(S, alts[i].pattern, match_type), LAMBDA p :
    IF p.S.err # "" THEN FailedAlts(p.S, alts, match_type, alt0_)
    ELSE
    With(typecheck(p.S, alts[i].expression), LAMBDA a :
    IF a.S.err # "" THEN FailedAlts(a.S, alts, match_type, alt0_)
    ELSE
    With(unify(a.S, alt0_, a.expr.typ), LAMBDA u :
    IF u.S.err # "" THEN FailedAlts(u.S, alts, match_type, alt0_)
    ELSE
    With(replaced(u.S, u.rhs), LAMBDA r :
    case_alts(r.S, [alts EXCEPT ![i].expression = [a.expr EXCEPT !.typ = r.typ]],
              i + 1, p.match_type, u.lhs)))))

typecheck_pattern(S, pattern, match_type) ==
    IF S.err # "" THEN [S |-> S, match_type |-> match_type]
    ELSE
    CASE pattern.k = "IdentifierPattern" ->
           With(with_new_var(S), LAMBDA S1 :
           With(unify(S1, newest(S1), match_type), LAMBDA u :
           IF u.S.err # "" THEN [S |-> u.S, match_type |-> match_type]
           ELSE
           With(replaced(u.S, u.rhs), LAMBDA m :
           With(replaced(m.S, u.lhs), LAMBDA t :
           [S |-> push_non_generic(insert(t.S, pattern.ident, t.typ), t.typ),
            match_type |-> m.typ]))))
      [] pattern.k = "NumberPattern" ->
           With(unify(S, Type_new_op("Int", <<>>), match_type), LAMBDA u :
           IF u.S.err # "" THEN [S |-> u.S, match_type |-> match_type]
           ELSE
           With(replaced(u.S, u.rhs), LAMBDA m :
           With(replaced(m.S, u.lhs), LAMBDA t :
           [S |-> t.S, match_type |-> m.typ])))
      [] pattern.k = "ConstructorPattern" ->
           With(fresh(S, pattern.name), LAMBDA f :
           IF f.typ = None
           THEN [S |-> [S EXCEPT !.err = "Undefined constructer"],
                 match_type |-> match_type]
           ELSE
           With(unify(f.S, get_returntype(f.typ[1]), match_type), LAMBDA u :
           IF u.S.err # "" THEN [S |-> u.S, match_type |-> match_type]
           ELSE
           With(replaced(u.S, u.rhs), LAMBDA m :
           With(replaced(m.S, f.typ[1]), LAMBDA t :
           [S |-> pattern_rec([t.S EXCEPT !.env = apply(@, t.S.subs)], 1,
                              pattern.patterns, t.typ),
            match_type |-> m.typ]))))

\* pattern_rec: the state afterwards (the pattern counted from 1)
pattern_rec(S, i, patterns, func_type) ==
    IF i > Len(patterns) \/ S.err # "" THEN S
    ELSE IF Len(func_type.types) < 2 THEN [S EXCEPT !.err = "index out of bounds"]
    ELSE pattern_rec(typecheck_pattern(S, patterns[i], func_type.types[1]).S,
                     i + 1, patterns, func_type.types[2])

\* for index in group.iter(): the fresh variable and the name of each binding
group_assign(S, bindings, group) ==
    IF group = <<>> \/ S.err # "" THEN [S |-> S, bindings |-> bindings]
    ELSE
    With(with_new_var(S), LAMBDA S1 :
    With(insert(S1, bindings[Head(group)].name, newest(S1)), LAMBDA S2 :
    With(~TypeEq(bindings[Head(group)].typeDecl.typ, Type_new_var(0)), LAMBDA declared :
    With(IF declared THEN S2 ELSE with_new_var(S2), LAMBDA S3 :
    group_assign(S3,
                 [bindings EXCEPT ![Head(group)].expression.typ = newest(S1),
                                  ![Head(group)].typeDecl.typ =
                                      IF declared THEN @ ELSE newest(S3)],
                 Tail(group))))))

\* for index in group.iter(): typecheck the expression of each binding
group_typecheck(S, bindings, group) ==
    IF group = <<>> \/ S.err # "" THEN [S |-> S, bindings |-> bindings]
    ELSE
    With(bindings[Head(group)], LAMBDA bind :
    With(typecheck(Logged(push_non_generic(S, bind.expression.typ),
                          "typecheck", bind.name),
                   bind.expression), LAMBDA t :
    IF t.S.err # "" THEN [S |-> t.S, bindings |-> bindings]
    ELSE
    With(unify(t.S, bind.typeDecl.typ, t.expr.typ), LAMBDA u :
    IF u.S.err # "" THEN [S |-> u.S, bindings |-> bindings]
    ELSE
    With(substituted(u.S, [t.expr EXCEPT !.typ = u.rhs]), LAMBDA s :
    With([s.S EXCEPT !.subs.subs = MapInsert(@, bind.expression.typ.typ.id, s.expr.typ)],
         LAMBDA S2 :
    group_typecheck([S2 EXCEPT !.env = apply(@, S2.subs)],
                    [bindings EXCEPT ![Head(group)].expression = s.expr,
                                     ![Head(group)].typeDecl.typ = u.lhs],
                    Tail(group)))))))

\* for index in group.iter(): record the type and the context of each binding
group_record(S, bindings, group) ==
    IF group = <<>> \/ S.err # "" THEN [S |-> S, bindings |-> bindings]
    ELSE
    With(substituted(pop_non_generic(S), bindings[Head(group)].expression), LAMBDA s :
    group_record(Logged(s.S, "record", bindings[Head(group)].name),
                 [bindings EXCEPT
                     ![Head(group)].expression = s.expr,
                     ![Head(group)].typeDecl.typ = s.expr.typ,
                     ![Head(group)].typeDecl.context =
                         find_constraints(s.S.env, s.expr.typ)],
                 Tail(group)))

\* for i in range(0, groups.len())
typecheck_groups(S, bindings, groups) ==
    IF groups = <<>> \/ S.err # "" THEN [S |-> S, bindings |-> bindings]
    ELSE
    With(group_assign(S, bindings, Head(groups)), LAMBDA a :
    With(group_typecheck(a.S, a.bindings, Head(groups)), LAMBDA t :
    IF t.S.err # "" THEN t
    ELSE
    With(group_record(t.S, t.bindings, Head(groups)), LAMBDA r :
    typecheck_groups(r.S, r.bindings, Tail(groups)))))

\* the bindings typed one after the other as they are written, each a group
typecheck_bindings_as_written(S, bindings) ==
    typecheck_groups(S, bindings, [i \in DOMAIN bindings |-> << i >>])

typecheck_mutually_recursive_bindings(S, bindings) ==
    typecheck_groups(S, bindings, strongly_connected_components(build_graph(bindings)))

\* TypeEnvironment::typecheck: the state after the scope has gone and the
\* expression with its types
env_typecheck(env, expr) ==
    With(typecheck(Checker(env, NewSubstitution, << NewScope >>), expr), LAMBDA t :
    With(drop(t.S), LAMBDA S :
    IF S.err # "" THEN Checked(S, t.expr)
    ELSE With(substitute(S.env.constraints, S.subs, t.expr), LAMBDA s :
         Checked([S EXCEPT !.env.constraints = s.constraints], s.expr))))

(***************************************************************************)
(* Modules: TypeEnvironment::add_types and typecheck_module.               *)
(***************************************************************************)
Module(dataDefinitions, classes, instances_, typeDeclarations, bindings) ==
    [dataDefinitions |-> dataDefinitions, classes |-> classes, instances |-> instances_,
     typeDeclarations |-> typeDeclarations, bindings |-> bindings]

DataDefinition(typ, constructors) == [typ |-> typ, constructors |-> constructors]

Constructor_(name, typ) == [name |-> name, typ |-> typ]

Class(name, variable, declarations) ==
    [name |-> name, variable |-> variable, declarations |-> declarations]

Instance(classname, typ, cs, bindings) ==
    [classname |-> classname, typ |-> typ, constraints |-> cs, bindings |-> bindings]

\* parser.rs, encodeBindingIdentifier
encodeBindingIdentifier(instancename, bindingname) == "#" \o instancename \o bindingname

\* binding.name.ends_with(decl.name)
ends_with(name, suffix) ==
    /\ Len(suffix) <= Len(name)
    /\ SubSeq(name, Len(name) - Len(suffix) + 1, Len(name)) = suffix

\* Module::each_typedeclaration: the declarations in the order of the visit
each_typedeclaration(module) ==
    [b \in DOMAIN module.bindings |-> module.bindings[b].typeDecl]
        \o Concat([c \in DOMAIN module.classes |-> module.classes[c].declarations])

\* add_types, the closure: for constraint in decl.context.iter()
RECURSIVE add_constraints(_, _, _)
add_constraints(cons, max_id, context) ==
    IF context = <<>> THEN [constraints |-> cons, max_id |-> max_id]
    ELSE LET var == Head(context).variables[1]
         IN add_constraints(MapInsert(cons, var,
                                      Append(MapFind(cons, var, <<>>), Head(context).class)),
                            IF var > max_id THEN var ELSE max_id,
                            Tail(context))

add_types(env, types) ==
    LET decls == each_typedeclaration(types)
        r == add_constraints(env.constraints, 0,
                             Concat([d \in DOMAIN decls |-> decls[d].context]))
    IN [env EXCEPT !.constraints = r.constraints,
                   !.variableIndex = r.max_id,
                   !.assemblies = Append(@, types)]

\* freshen_declaration2, the loop over decl.context: a new variable for every
\* constraint, kept when the variable of the constraint has none yet
RECURSIVE freshen_context(_, _, _)
freshen_context(env, mapping, context) ==
    IF context = <<>> THEN [env |-> env, mapping |-> mapping, context |-> <<>>]
    ELSE
    With(Head(context).variables[1], LAMBDA old :
    With(new_var(env), LAMBDA env1 :
    With(IF old \in DOMAIN mapping THEN mapping
         ELSE MapInsert(mapping, old, Type_new_var(env1.variableIndex)), LAMBDA mapping1 :
    With(freshen_context(env1, mapping1, Tail(context)), LAMBDA t :
    [env |-> t.env, mapping |-> t.mapping,
     context |-> << [Head(context) EXCEPT !.variables = << mapping1[old].typ.id >>] >>
                     \o t.context]))))

freshen_declaration2(env, decl, mapping) ==
    With(freshen_context(env, mapping, decl.context), LAMBDA c :
    With(freshen(<< NewScope >>, c.env, c.mapping, decl.typ), LAMBDA f :
    [env |-> f.env, decl |-> [decl EXCEPT !.context = c.context, !.typ = f.typ]]))

freshen_declaration(env, decl) == freshen_declaration2(env, decl, <<>>)

RECURSIVE replace_var(_, _, _)
replace_var(typ, var, replacement) ==
    LET new == is_var(typ) /\ typ.typ.id = var
        typ1 == IF ~new THEN typ
                ELSE IF Len(typ.types) > 0 THEN Type(replacement.typ, typ.types)
                ELSE replacement
    IN Type(typ1.typ, [i \in DOMAIN typ1.types |-> replace_var(typ1.types[i], var, replacement)])

\* typecheck_module, for data_def in module.dataDefinitions
RECURSIVE insert_constructors(_, _, _)
insert_constructors(env, constructors, subst) ==
    IF constructors = <<>> THEN [env |-> env, constructors |-> <<>>]
    ELSE
    With(replace(env.constraints, Head(constructors).typ, subst), LAMBDA r :
    With(insert_constructors(
             [env EXCEPT !.constraints = r.constraints,
                         !.namedTypes = MapInsert(@, Head(constructors).name, r.typ)],
             Tail(constructors), subst), LAMBDA t :
    [env |-> t.env,
     constructors |-> << [Head(constructors) EXCEPT !.typ = r.typ] >> \o t.constructors]))

RECURSIVE typecheck_data(_, _)
typecheck_data(env, defs) ==
    IF defs = <<>> THEN [env |-> env, defs |-> <<>>]
    ELSE
    With(freshen(<< NewScope >>, env, <<>>, Head(defs).typ), LAMBDA f :
    With(insert_constructors(f.env, Head(defs).constructors,
                             [subs |-> f.mapping, constraints |-> <<>>]), LAMBDA c :
    With(typecheck_data(c.env, Tail(defs)), LAMBDA t :
    [env |-> t.env,
     defs |-> << [Head(defs) EXCEPT !.constructors = c.constructors] >> \o t.defs])))

\* typecheck_module, for class in module.classes
RECURSIVE class_declarations(_, _, _, _)
class_declarations(env, class, new, decls) ==
    IF decls = <<>> THEN [env |-> env, decls |-> <<>>]
    ELSE
    With(freshen_declaration2(env, Head(decls), MapInsert(<<>>, class.variable, new)),
         LAMBDA f :
    With([f.decl EXCEPT !.context = Append(@, Constraint(class.name, new.typ.id))],
         LAMBDA decl :
    With(class_declarations([f.env EXCEPT !.namedTypes =
                                              MapInsert(@, decl.name, decl.typ)],
                            class, new, Tail(decls)), LAMBDA t :
    [env |-> t.env, decls |-> << decl >> \o t.decls])))

RECURSIVE typecheck_classes(_, _)
typecheck_classes(env, classes) ==
    IF classes = <<>> THEN [env |-> env, classes |-> <<>>]
    ELSE
    With(new_var(env), LAMBDA env1 :
    With(Type_new_var(env1.variableIndex), LAMBDA new :
    With(class_declarations(
             [env1 EXCEPT !.constraints = MapInsert(@, new.typ.id, << Head(classes).name >>)],
             Head(classes), new, Head(classes).declarations), LAMBDA d :
    With(typecheck_classes(d.env, Tail(classes)), LAMBDA t :
    [env |-> t.env,
     classes |-> << [Head(classes) EXCEPT !.variable = new.typ.id,
                                          !.declarations = d.decls] >> \o t.classes]))))

\* typecheck_module, for instance in module.instances
RECURSIVE push_context(_, _)
push_context(cons, context) ==
    IF context = <<>> THEN cons
    ELSE push_context(MapInsert(cons, Head(context).variables[1],
                                Append(MapFind(cons, Head(context).variables[1], <<>>),
                                       Head(context).class)),
                      Tail(context))

RECURSIVE instance_bindings(_, _, _, _)
instance_bindings(S, class, instance, bindings) ==
    IF bindings = <<>> \/ S.err # "" THEN [S |-> S, bindings |-> bindings]
    ELSE
    With(SelectSeq(class.declarations,
                   LAMBDA decl : ends_with(Head(bindings).name, decl.name)), LAMBDA found :
    IF found = <<>>
    THEN [S |-> [S EXCEPT !.err = "Could not find the binding in the class"],
          bindings |-> bindings]
    ELSE
    With(freshen_declaration(
             S.env,
             [found[1] EXCEPT !.typ = replace_var(@, class.variable, instance.typ),
                              !.context = @ \o instance.constraints]), LAMBDA f :
    With(instance_bindings(
             [S EXCEPT !.env = [f.env EXCEPT !.constraints =
                                                 push_context(@, f.decl.context)]],
             class, instance, Tail(bindings)), LAMBDA t :
    [S |-> t.S,
     bindings |-> << [Head(bindings) EXCEPT !.typeDecl = f.decl] >> \o t.bindings])))

RECURSIVE typecheck_instances(_, _, _)
typecheck_instances(S, classes, instances_) ==
    IF instances_ = <<>> \/ S.err # "" THEN [S |-> S, instances |-> instances_]
    ELSE
    With(Head(instances_), LAMBDA instance :
    With(SelectSeq(classes, LAMBDA class : class.name = instance.classname),
         LAMBDA found :
    IF found = <<>>
    THEN [S |-> [S EXCEPT !.err = "Could not find class"], instances |-> instances_]
    ELSE
    With(freshen_context(S.env, <<>>, instance.constraints), LAMBDA c :
    With(freshen(<< NewScope >>, c.env, c.mapping, instance.typ), LAMBDA f :
    With([instance EXCEPT !.constraints = c.context, !.typ = f.typ], LAMBDA instance1 :
    With(instance_bindings([S EXCEPT !.env = f.env], found[1], instance1,
                           instance.bindings), LAMBDA b :
    IF b.S.err # "" THEN [S |-> b.S, instances |-> instances_]
    ELSE
    With(typecheck_instances(
             [b.S EXCEPT !.env.instances =
                             Append(@, << instance.classname, instance1.typ >>)],
             classes, Tail(instances_)), LAMBDA t :
    [S |-> t.S,
     instances |-> << [instance1 EXCEPT !.bindings = b.bindings] >> \o t.instances])))))))

\* typecheck_module, for type_decl in module.typeDeclarations
RECURSIVE typecheck_declarations(_, _, _)
typecheck_declarations(S, decls, bindings) ==
    IF decls = <<>> \/ S.err # "" THEN [S |-> S, decls |-> decls, bindings |-> bindings]
    ELSE
    With(freshen_declaration(S.env, Head(decls)), LAMBDA f :
    With({b \in DOMAIN bindings : bindings[b].name = f.decl.name}, LAMBDA named :
    IF named = {}
    THEN [S |-> [S EXCEPT !.env = f.env, !.err = "Type declaration has no binding"],
          decls |-> decls, bindings |-> bindings]
    ELSE
    With(typecheck_declarations(
             [S EXCEPT !.env = f.env], Tail(decls),
             [bindings EXCEPT ![CHOOSE b \in named : \A c \in named : b <= c].typeDecl =
                                  f.decl]), LAMBDA t :
    [S |-> t.S, decls |-> << f.decl >> \o t.decls, bindings |-> t.bindings])))

\* Bindings for Module, each_binding: the bindings of the module and then
\* those of its instances
AllBindings(bindings, instances_) ==
    bindings \o Concat([i \in DOMAIN instances_ |-> instances_[i].bindings])

\* the bindings of the instance i among all, after get_mut has changed them
RECURSIVE BindingsBefore(_, _)
BindingsBefore(instances_, i) ==
    IF i = 1 THEN 0 ELSE Len(instances_[i - 1].bindings) + BindingsBefore(instances_, i - 1)

RECURSIVE insert_bindings(_, _)
insert_bindings(nt, bindings) ==
    IF bindings = <<>> THEN nt
    ELSE insert_bindings(MapInsert(nt, Head(bindings).name, Head(bindings).expression.typ),
                         Tail(bindings))

\* the instances with their bindings as the typechecking of all the
\* bindings (those of the module first) has left them
InstancesWith(instances_, bindings, n) ==
    [x \in DOMAIN instances_ |->
        [instances_[x] EXCEPT !.bindings =
            SubSeq(bindings, n + BindingsBefore(instances_, x) + 1,
                   n + BindingsBefore(instances_, x) + Len(instances_[x].bindings))]]

typecheck_module(env, module) ==
    With(typecheck_data(env, module.dataDefinitions), LAMBDA d :
    With(typecheck_classes(d.env, module.classes), LAMBDA c :
    With(typecheck_instances(Checker(c.env, NewSubstitution, <<>>), c.classes,
                             module.instances), LAMBDA i :
    IF i.S.err # "" THEN [S |-> i.S, module |-> module]
    ELSE
    With(typecheck_declarations(i.S, module.typeDeclarations, module.bindings), LAMBDA t :
    IF t.S.err # "" THEN [S |-> t.S, module |-> module]
    ELSE
    With(typecheck_mutually_recursive_bindings(
             [t.S EXCEPT !.scopes = << NewScope >>],
             AllBindings(t.bindings, i.instances)), LAMBDA m :
    With(drop(m.S), LAMBDA S :
    IF S.err # "" THEN [S |-> S, module |-> module]
    ELSE
    With(SubSeq(m.bindings, 1, Len(module.bindings)), LAMBDA bindings :
    [S |-> [S EXCEPT !.env.namedTypes = insert_bindings(@, bindings)],
     module |-> [dataDefinitions |-> d.defs, classes |-> c.classes,
                 instances |-> InstancesWith(i.instances, m.bindings,
                                             Len(module.bindings)),
                 typeDeclarations |-> t.decls,
                 bindings |-> bindings]])))))))

(***************************************************************************)
(* The type checker as a state machine.  A client creates a                *)
(* TypeEnvironment and then calls typecheck, typecheck_module and          *)
(* add_types on it; the steps unify, has_instance and fresh are the ones   *)
(* those calls are made of, taken here on the environment as they find it. *)
(* A failure (fail!) ends the task: nothing happens after it.              *)
(***************************************************************************)
Int_ == Type_new_op("Int", <<>>)

CharT == Type_new_op("Char", <<>>)

Double_ == Type_new_op("Double", <<>>)

BoolT == Type_new_op("Bool", <<>>)

list_type(t) == Type_new_op("[]", << t >>)

\* the tuple type of three components, as create_tuple_type names it
triple_type(a, b, c) == Type_new_op("(,,)", << a, b, c >>)

\* class Test a where test :: a -> Int
TestClass ==
    Class("Test", 1000000,
          << TypeDeclaration("test", function_type(Type_new_var(1000000), Int_), <<>>) >>)

\* instance Test Int where test x = 10
TestInt == Instance("Test", Int_, <<>>, << Binding("#Inttest", Lambda("x", Number)) >>)

\* data T = MkT Char
TData ==
    DataDefinition(Type_new_op("T", <<>>),
                   << Constructor_("MkT", function_type(CharT, Type_new_op("T", <<>>))) >>)

\* data Bool = True | False
BoolData == DataDefinition(BoolT, << Constructor_("True", BoolT), Constructor_("False", BoolT) >>)

\* class Eq a where (==) :: a -> a -> Bool
EqClass ==
    Class("Eq", 1000000,
          << TypeDeclaration("==", function_type(Type_new_var(1000000),
                                                 function_type(Type_new_var(1000000), BoolT)),
                             <<>>) >>)

\* instance Eq Int where (==) x y = primIntEQ x y
EqInt ==
    Instance("Eq", Int_, <<>>,
             << Binding("#Int==",
                        Lambda("x", Lambda("y", Apply(Apply(Identifier("primIntEQ"),
                                                            Identifier("x")),
                                                      Identifier("y"))))) >>)

\* instance Eq a => Eq [a] where (==) xs ys = True
EqList ==
    Instance("Eq", list_type(Type_new_var(0)), << Constraint("Eq", 0) >>,
             << Binding("#[]==", Lambda("xs", Lambda("ys", Identifier("True")))) >>)

\* main = test 1   (the module of the test typecheck_constraints)
TestModule ==
    Module(<<>>, << TestClass >>, << TestInt >>, <<>>,
           << Binding("main", Apply(Identifier("test"), Number)) >>)

\* main = test 'a'  (the module of the test typecheck_constraints_no_instance)
NoInstanceModule ==
    Module(<<>>, << TestClass >>, << TestInt >>, <<>>,
           << Binding("main", Apply(Identifier("test"), CharExpr)) >>)

\* main x = (\y -> test x) (MkT x)
CarriedModule ==
    Module(<< TData >>, << TestClass >>, << TestInt >>, <<>>,
           << Binding("main",
                      Lambda("x", Apply(Lambda("y", Apply(Identifier("test"), Identifier("x"))),
                                        Apply(Identifier("MkT"), Identifier("x"))))) >>)

\* the classes and instances of Eq, and  f x y = x == x
EqModule ==
    Module(<< BoolData >>, << EqClass >>, << EqInt, EqList >>, <<>>,
           << Binding("f", Lambda("x", Lambda("y", Apply(Apply(Identifier("=="),
                                                               Identifier("x")),
                                                         Identifier("x"))))) >>)

\* class Suffix a where { t :: a -> Int; test :: a -> Char }
SuffixClass ==
    Class("Suffix", 1000000,
          << TypeDeclaration("t", function_type(Type_new_var(1000000), Int_), <<>>),
             TypeDeclaration("test", function_type(Type_new_var(1000000), CharT), <<>>) >>)

\* instance Suffix Int where { t x = 10; test x = let y = y in y }
SuffixInt ==
    Instance("Suffix", Int_, <<>>,
             << Binding(encodeBindingIdentifier("Int", "t"), Lambda("x", Number)),
                Binding(encodeBindingIdentifier("Int", "test"),
                        Lambda("x", Let(<< Binding("y", Identifier("y")) >>,
                                        Identifier("y")))) >>)

\* a class with a method whose name ends with the name of another one
SuffixModule == Module(<<>>, << SuffixClass >>, << SuffixInt >>, <<>>, <<>>)

Modules == {TestModule, NoInstanceModule, CarriedModule, EqModule, SuffixModule}

\* TypeEnvironment::new()
NewTypeEnvironment ==
    [namedTypes |-> NewNamedTypes, constraints |-> <<>>, instances |-> <<>>,
     variableIndex |-> 0, assemblies |-> <<>>, allocated |-> <<>>]

\* a module a client imports is one that was typechecked in an environment
\* of its own (the test typecheck_import)
Prelude == typecheck_module(NewTypeEnvironment, EqModule).module

Imports == {Prelude}

\* let b = test; test = 1 : test2; test2 = 2 : test in b
\* (the bindings of the test typecheck_recursive_let, the user first)
RecursiveLet ==
    Let(<< Binding("b", Identifier("test")),
           Binding("test", Apply(Apply(Identifier(":"), Number), Identifier("test2"))),
           Binding("test2", Apply(Apply(Identifier(":"), Number), Identifier("test"))) >>,
        Identifier("b"))

\* let b = a; a = 1 in b : a binding that comes before the one it uses
OrderedLet ==
    Let(<< Binding("b", Identifier("a")), Binding("a", Number) >>, Identifier("b"))

\* \p -> case p of [] -> p
LambdaCaseNil ==
    Lambda("p", Case(Identifier("p"),
                     << Alternative(ConstructorPattern("[]", <<>>), Identifier("p")) >>))

\* \p -> case p of (x : xs) -> p
LambdaCaseCons ==
    Lambda("p", Case(Identifier("p"),
                     << Alternative(ConstructorPattern(":", << IdentifierPattern("x"),
                                                              IdentifierPattern("xs") >>),
                                    Identifier("p")) >>))

\* \p -> primIntAdd p p
LambdaAdd ==
    Lambda("p", Apply(Apply(Identifier("primIntAdd"), Identifier("p")), Identifier("p")))

Expressions ==
    {Number, Identifier("f"), Apply(Identifier("f"), Number), RecursiveLet, OrderedLet,
     LambdaCaseNil, LambdaCaseCons, LambdaAdd}

\* the pairs of types unify is called with
UnifyPairs ==
    {<< Type_new_var(1), Int_ >>,
     << Type_new_var(1), CharT >>,
     << Type_new_var(1), Double_ >>,
     << Type_new_var(1), list_type(Int_) >>,
     << Type_new_var(1), list_type(Type_new_var(1)) >>,
     << Type_new_var(1), Type_new_var(2) >>,
     << function_type(Type_new_var(1), CharT),
        function_type(Type_new_var(2), Type_new_var(2)) >>,
     << triple_type(Type_new_var(1), Type_new_var(2), Type_new_var(1)),
        triple_type(Type_new_var(2), Int_, CharT) >>,
     << function_type(Int_, CharT), function_type(Int_, CharT) >>,
     << function_type(Int_, CharT), function_type(CharT, CharT) >>,
     << function_type(Int_, CharT), list_type(Int_) >>,
     << Type_new_op("T", << Int_ >>), Type_new_op("T", <<>>) >>}

UnifyInputs == UnifyPairs \cup {<< p[2], p[1] >> : p \in UnifyPairs}

\* the (class, type) pairs has_instance is asked about
InstanceQueries ==
    {<< "Test", Int_ >>, << "Test", CharT >>, << "Eq", Int_ >>,
     << "Eq", list_type(Int_) >>, << "Eq", list_type(CharT) >>}

FreshNames == {"f", "test", "primIntAdd", "(,)"}

\* the fields of the TypeEnvironment take the values of env
SetEnv(env) ==
    /\ namedTypes' = env.namedTypes
    /\ constraints' = env.constraints
    /\ instances' = env.instances
    /\ variableIndex' = env.variableIndex
    /\ assemblies' = env.assemblies
    /\ allocated' = env.allocated

\* the virtual machine before anything was loaded (VM::new)
NewVM ==
    /\ assembly = <<>>
    /\ globals = <<>>
    /\ heap = <<>>
    /\ frames = <<>>
    /\ result = <<>>
    /\ aborted = ""
    /\ calls = 0
    /\ last = NoLast
    /\ reductions = <<>>
    /\ forcings = <<>>
    /\ main = NoMain

TypeInit ==
    /\ NewVM
    /\ NoParser
    /\ namedTypes = NewTypeEnvironment.namedTypes
    /\ constraints = NewTypeEnvironment.constraints
    /\ instances = NewTypeEnvironment.instances
    /\ variableIndex = NewTypeEnvironment.variableIndex
    /\ assemblies = NewTypeEnvironment.assemblies
    /\ allocated = NewTypeEnvironment.allocated
    /\ scopes = <<>>
    /\ subs = NewSubstitution
    /\ failed = ""
    /\ lastType = NoType
    /\ ops = 0
    /\ program = <<>>
    /\ entered = <<>>

\* TypeEnvironment::typecheck(expr)
Typecheck(expr) ==
    /\ ops < MaxOps
    /\ failed = ""
    /\ scopes = <<>>
    /\ LET t == env_typecheck(Env, expr)
       IN /\ SetEnv(t.S.env)
          /\ failed' = t.S.err
          /\ lastType' = [op |-> "typecheck", expr |-> expr, typed |-> t.expr,
                          log |-> t.S.log, freshened |-> t.S.freshened]
    /\ subs' = NewSubstitution
    /\ ops' = ops + 1
    /\ UNCHANGED << scopes, program, entered, vmvars, pvars >>

\* TypeEnvironment::typecheck_module(module)
TypecheckModule(m) ==
    /\ ops < MaxOps
    /\ failed = ""
    /\ scopes = <<>>
    /\ program = <<>>
    /\ LET t == typecheck_module(Env, m)
       IN /\ SetEnv(t.S.env)
          /\ failed' = t.S.err
          /\ program' = IF t.S.err = "" THEN t.module ELSE program
          /\ lastType' = [op |-> "typecheck_module", module |-> m, log |-> t.S.log,
                          freshened |-> t.S.freshened]
    /\ subs' = NewSubstitution
    /\ ops' = ops + 1
    /\ UNCHANGED << scopes, entered, vmvars, pvars >>

\* TypeEnvironment::add_types(types)
AddTypes(types) ==
    /\ ops < MaxOps
    /\ failed = ""
    /\ scopes = <<>>
    /\ SetEnv(add_types(Env, types))
    /\ lastType' = [op |-> "add_types"]
    /\ ops' = ops + 1
    /\ UNCHANGED << scopes, subs, failed, program, entered, vmvars, pvars >>

\* unify_location(env, subs, lhs, rhs) with a new Substitution, on types whose
\* variables the environment has handed out; the outcome of the call with
\* the two types exchanged, from the same state, is noted beside it
Unify(lhs, rhs) ==
    /\ ops < MaxOps
    /\ failed = ""
    /\ scopes = <<>>
    /\ VarsOf(lhs) \cup VarsOf(rhs) \subseteq 1..variableIndex
    /\ LET u == unify_location(Env, NewSubstitution, lhs, rhs)
           r == unify_location(Env, NewSubstitution, rhs, lhs)
       IN /\ SetEnv(u.env)
          /\ subs' = u.subs
          /\ failed' = u.err
          /\ lastType' = [op |-> "unify", lhs |-> lhs, rhs |-> rhs,
                          before |-> Env, err |-> u.err,
                          exchanged |-> [err |-> r.err, subs |-> r.subs,
                                         constraints |-> r.env.constraints]]
    /\ ops' = ops + 1
    /\ UNCHANGED << scopes, program, entered, vmvars, pvars >>

\* TypeEnvironment::has_instance(class, searched_type)
HasInstance(class, searched_type) ==
    /\ ops < MaxOps
    /\ failed = ""
    /\ scopes = <<>>
    /\ lastType' = [op |-> "has_instance", class |-> class, typ |-> searched_type,
                    found |-> has_instance(Env, class, searched_type)]
    /\ ops' = ops + 1
    /\ UNCHANGED << namedTypes, constraints, instances, variableIndex, assemblies,
                    allocated, scopes, subs, failed, program, entered, vmvars, pvars >>

\* TypeScope::fresh(name) in a scope without a parent, as typecheck and
\* typecheck_module create one
Fresh(name) ==
    /\ ops < MaxOps
    /\ failed = ""
    /\ scopes = <<>>
    /\ find(Env, name) # None
    /\ LET f == fresh(Checker(Env, NewSubstitution, << NewScope >>), name)
       IN /\ SetEnv(f.S.env)
          /\ lastType' = [op |-> "fresh", name |-> name,
                          freshened |-> f.S.freshened]
    /\ ops' = ops + 1
    /\ UNCHANGED << scopes, subs, failed, program, entered, vmvars, pvars >>

TypeNext ==
    \/ \E expr \in Expressions : Typecheck(expr)
    \/ \E m \in Modules : TypecheckModule(m)
    \/ \E types \in Imports : AddTypes(types)
    \/ \E p \in UnifyInputs : Unify(p[1], p[2])
    \/ \E q \in InstanceQueries : HasInstance(q[1], q[2])
    \/ \E name \in FreshNames : Fresh(name)

TypeSpec == TypeInit /\ [][TypeNext]_vars

(***************************************************************************)
(* Properties.                                                             *)
(***************************************************************************)
IntOps == {"Add", "Sub", "Multiply", "Divide", "Remainder",
           "IntEQ", "IntLT", "IntLE", "IntGT", "IntGE"}

DoubleOps == BinaryOps \ IntOps

ValueKinds == {"Int", "Float", "Char", "Constructor", "Dictionary"}

\* the instruction `op` was the last step taken and did not fail
Stepped(op) ==
    /\ aborted = ""
    /\ last.op.op = op
    /\ last.depth >= 1
    /\ Len(frames) >= last.depth

\* the stack the last step left in the activation that took it
StepStack == frames[last.depth].stack

Reverse(q) == [k \in 1..Len(q) |-> q[Len(q) + 1 - k]]

\* C1: when an Eval is over, the stack is as long as before it, every slot
\* below the top holds the node it held, the top is the node that was on top
\* of the sub-stack (the WHNF recorded for the forced node); and the sub-stack
\* of a finished Eval holds more than one node only when a node that is not a
\* combinator ended up in head position.
C1_EvalReplacesTop ==
    /\ Stepped("EvalReturn") =>
         /\ Len(last.pre) >= 1
         /\ Len(StepStack) = Len(last.pre)
         /\ \A k \in 1..(Len(last.pre) - 1) : StepStack[k] = last.pre[k]
         /\ forcings # <<>>
         /\ forcings[Len(forcings)].node = Top(last.pre)
         /\ forcings[Len(forcings)].whnf = Tree(heap, Top(StepStack))
         /\ last.branch = "many" => heap[Top(StepStack)].kind \in ValueKinds
    /\ (Finished /\ Cur.kind = "eval") =>
         \/ Len(Cur.stack) = 1
         \/ heap[Top(Cur.stack)].kind \in ValueKinds

\* an Eval of an application, with other nodes beneath, came back with an Int
C1_Witness ==
    /\ Stepped("EvalReturn")
    /\ Len(last.pre) >= 2
    /\ heap[Top(last.pre)].kind = "Application"
    /\ heap[Top(StepStack)].kind = "Int"

\* C2: call-by-need: no node is the root of more than one reduction, that is,
\* a combinator's instructions are entered at most once for any one node.
C2_ReducedAtMostOnce ==
    \A j, k \in DOMAIN reductions : reductions[j] = reductions[k] => j = k

\* C3: two forcings of the same node yield structurally equal WHNF nodes,
\* whatever lay beneath on the stack and whenever they happened.
C3_ForcingDeterministic ==
    \A j, k \in DOMAIN forcings :
        forcings[j].node = forcings[k].node => forcings[j].whnf = forcings[k].whnf

\* one reducible node was forced twice, above different stack contents
C3_Witness ==
    \E j, k \in DOMAIN forcings :
        /\ j < k
        /\ forcings[j].node = forcings[k].node
        /\ forcings[j].under # forcings[k].under
        /\ heap[forcings[j].node].kind \in {"Application", "Combinator"}
        /\ forcings[j].whnf.kind \in ValueKinds

\* a Pack(t, n) came right after a Split, in the same activation, of a
\* Constructor with tag t and n fields
SplitThenPack ==
    /\ Stepped("Pack")
    /\ last.op0.op = "Split"
    /\ last.depth0 = last.depth
    /\ last.pre0 # <<>>
    /\ heap[Top(last.pre0)].kind = "Constructor"
    /\ heap[Top(last.pre0)].n = last.op.a
    /\ Len(heap[Top(last.pre0)].fs) = last.op.b

\* C4 as claimed: Split then Pack(t, |xs|) leaves a Constructor with tag t and
\* the fields xs in the same order on top, and the rest of the stack as it was.
C4_RoundTripSameOrder ==
    SplitThenPack =>
        /\ Front(StepStack, 1) = Front(last.pre0, 1)
        /\ heap[Top(StepStack)].kind = "Constructor"
        /\ heap[Top(StepStack)].n = heap[Top(last.pre0)].n
        /\ heap[Top(StepStack)].fs = heap[Top(last.pre0)].fs

\* C4 amended: Split then Pack(t, |xs|) leaves a Constructor with tag t whose
\* fields are xs in reverse order, and the rest of the stack as it was.
C4_RoundTripReversed ==
    SplitThenPack =>
        /\ Front(StepStack, 1) = Front(last.pre0, 1)
        /\ heap[Top(StepStack)].kind = "Constructor"
        /\ heap[Top(StepStack)].n = heap[Top(last.pre0)].n
        /\ heap[Top(StepStack)].fs = Reverse(heap[Top(last.pre0)].fs)

\* the round trip of a Constructor with two different fields
C4_Witness ==
    /\ SplitThenPack
    /\ Len(heap[Top(last.pre0)].fs) = 2
    /\ heap[Top(last.pre0)].fs[1] # heap[Top(last.pre0)].fs[2]

\* the stack after Update(n) is `pre` with the slot at TLA+ position `slot`
\* replaced by a new Indirection to the node that was on top
UpdatedAt(pre, post, slot) ==
    /\ slot \in DOMAIN pre
    /\ Len(post) = Len(pre)
    /\ \A k \in DOMAIN pre : k # slot => post[k] = pre[k]
    /\ post[slot] \notin {pre[k] : k \in DOMAIN pre}
    /\ heap[post[slot]].kind = "Indirection"
    /\ heap[post[slot]].n = Top(pre)

\* C5 as claimed: Update(n) replaces the slot at index len - 1 - n.
C5_UpdateFromTop ==
    Stepped("Update") => UpdatedAt(last.pre, StepStack, Len(last.pre) - last.op.a)

\* C5 amended: Update(n) replaces the slot at index n, counted from the
\* bottom of the stack, with an Indirection to the current top.
C5_UpdateFromBottom ==
    Stepped("Update") => UpdatedAt(last.pre, StepStack, last.op.a + 1)

\* an Update(n) for which n and len - 1 - n are different slots
C5_Witness ==
    /\ Stepped("Update")
    /\ Len(last.pre) >= 2
    /\ last.op.a + 1 # Len(last.pre) - last.op.a

\* the combinator on top of stack s
CombinatorOnTop(s) == SuperCombinatorOf(heap[Top(s)])

\* Unwind is about to enter the code of a saturated combinator
SaturatedCombinator ==
    /\ At("Unwind")
    /\ Cur.stack # <<>>
    /\ heap[Top(Cur.stack)].kind = "Combinator"
    /\ Len(Cur.stack) - 1 >= CombinatorOnTop(Cur.stack).arity
    /\ \A j \in SpineSlots(Cur.stack, CombinatorOnTop(Cur.stack).arity) :
           heap[Cur.stack[j]].kind = "Application"

C7_PartialHalts ==
    (Stepped("Unwind") /\ last.branch = "partial" /\ last.call = calls) =>
        /\ Len(StepStack) = 1
        /\ StepStack[1] = last.pre[1]
        /\ frames[last.depth].i >= Len(frames[last.depth].code)

\* what an Int instruction yields for the operands l (left) and r (right)
IntResultIs(op, l, r, x) ==
    CASE op = "Add" -> x.kind = "Int" /\ x.n = l + r
      [] op = "Sub" -> x.kind = "Int" /\ x.n = l - r
      [] op = "Multiply" -> x.kind = "Int" /\ x.n = l * r
      [] op = "Divide" ->
            /\ x.kind = "Int"
            /\ r # 0
            /\ Abs(l - x.n * r) < Abs(r)
            /\ (l - x.n * r) * l >= 0
      [] op = "Remainder" ->
            /\ x.kind = "Int"
            /\ r # 0
            /\ Abs(x.n) < Abs(r)
            /\ x.n * l >= 0
            /\ \E q \in (-Abs(l))..Abs(l) : l = q * r + x.n
      [] op = "IntEQ" -> x = Constructor(IF l = r THEN 0 ELSE 1, <<>>)
      [] op = "IntLT" -> x = Constructor(IF l < r THEN 0 ELSE 1, <<>>)
      [] op = "IntLE" -> x = Constructor(IF l <= r THEN 0 ELSE 1, <<>>)
      [] op = "IntGT" -> x = Constructor(IF l > r THEN 0 ELSE 1, <<>>)
      [] op = "IntGE" -> x = Constructor(IF l >= r THEN 0 ELSE 1, <<>>)

\* C8: a binary Int instruction on [.., r, l], l on top and both Int, leaves
\* [.., x]: the slots below are unchanged and x is a new node, Int(l op r) for
\* the arithmetic instructions (quotient and remainder truncated toward zero),
\* Constructor(0, []) or Constructor(1, []) for a comparison l op r that is
\* true or false.
C8_IntPrimitive ==
    \A op \in IntOps :
        Stepped(op) =>
            LET pre == last.pre
                post == StepStack
            IN /\ Len(pre) >= 2
               /\ heap[pre[Len(pre)]].kind = "Int"
               /\ heap[pre[Len(pre) - 1]].kind = "Int"
               /\ Len(post) = Len(pre) - 1
               /\ Front(post, 1) = Front(pre, 2)
               /\ Top(post) \notin {pre[k] : k \in DOMAIN pre}
               /\ IntResultIs(op, heap[pre[Len(pre)]].n, heap[pre[Len(pre) - 1]].n,
                              heap[Top(post)])

\* Divide with -3 on top of 2, above another node: Int(-1)
C8_Witness ==
    /\ Stepped("Divide")
    /\ Len(last.pre) = 3
    /\ heap[last.pre[3]].n = -3
    /\ heap[last.pre[2]].n = 2
    /\ heap[Top(StepStack)] = IntNode(-1)

\* C9: an instruction that expects a node of one kind never goes on with a
\* node of another kind: whenever one of them has executed without failing,
\* the node or nodes it inspected were of the kind it expects.
C9_KindMismatchDetected ==
    /\ \A op \in IntOps :
          Stepped(op) => /\ heap[last.pre[Len(last.pre)]].kind = "Int"
                         /\ heap[last.pre[Len(last.pre) - 1]].kind = "Int"
    /\ \A op \in DoubleOps :
          Stepped(op) => /\ heap[last.pre[Len(last.pre)]].kind = "Float"
                         /\ heap[last.pre[Len(last.pre) - 1]].kind = "Float"
    /\ Stepped("IntToDouble") => heap[Top(last.pre)].kind = "Int"
    /\ Stepped("DoubleToInt") => heap[Top(last.pre)].kind = "Float"
    /\ Stepped("Split") => heap[Top(last.pre)].kind = "Constructor"
    /\ Stepped("CaseJump") => heap[Top(last.pre)].kind = "Constructor"
    /\ Stepped("JumpFalse") => heap[Top(last.pre)].kind = "Constructor"
    /\ Stepped("PushDictionaryMember") => heap[last.pre[1]].kind = "Dictionary"
    /\ (Stepped("Unwind") /\ last.branch = "Combinator") =>
          \A j \in SpineSlots(last.pre, CombinatorOnTop(last.pre).arity) :
              heap[last.pre[j]].kind = "Application"

\* C10: PushDictionaryMember(k) reads slot 0 of the stack of the activation
\* that executes it: if that node is a Dictionary d (and d[k] exists and is a
\* global index) a new Combinator node for global d[k] is pushed on that stack
\* and no other stack changes; if the stack is empty, the node is no
\* Dictionary, or an index is out of range, the run aborts.
C10_DictionaryMember ==
    [][ At("PushDictionaryMember") =>
          IF Cur.stack = <<>> THEN aborted' # ""
          ELSE IF heap[Cur.stack[1]].kind # "Dictionary" THEN aborted' # ""
          ELSE LET dict == heap[Cur.stack[1]].fs IN
               IF Ins.a >= Len(dict) THEN aborted' # ""
               ELSE IF dict[Ins.a + 1] >= Len(globals) THEN aborted' # ""
               ELSE /\ aborted' = ""
                    /\ Len(frames') = Len(frames)
                    /\ \A k \in 1..(Len(frames) - 1) : frames'[k] = frames[k]
                    /\ frames'[Len(frames)].stack = Append(Cur.stack, Len(heap) + 1)
                    /\ frames'[Len(frames)].i = Cur.i + 1
                    /\ heap' = Append(heap, Combinator(globals[dict[Ins.a + 1] + 1][1],
                                                       globals[dict[Ins.a + 1] + 1][2]))
      ]_vars

\* a member was pushed by a callee whose caller's stack holds no dictionary
\* in slot 0
C10_Witness ==
    /\ Stepped("PushDictionaryMember")
    /\ last.depth >= 2
    /\ Len(frames) = last.depth
    /\ heap[last.pre[1]].kind = "Dictionary"
    /\ heap[Top(StepStack)].kind = "Combinator"
    /\ \A k \in 1..(last.depth - 1) :
           frames[k].stack = <<>> \/ heap[frames[k].stack[1]].kind # "Dictionary"


(***************************************************************************)
(* extract_result and execute_main.                                        *)
(***************************************************************************)
\* the tree of the node vm.evaluate returned
ResultTree == Tree(heap, CHOOSE a \in DOMAIN heap : heap[a] = result[1])

\* a tree built only of Int, Float and Constructor nodes
RECURSIVE OnlyValues(_)
OnlyValues(t) ==
    \/ t.kind \in {"Int", "Float"}
    \/ /\ t.kind = "Constructor"
       /\ \A k \in DOMAIN t.kids : OnlyValues(t.kids[k])

\* the result such a tree stands for, children in field order
RECURSIVE ResultOf(_)
ResultOf(t) ==
    [kind |-> CASE t.kind = "Int" -> "IntResult"
                [] t.kind = "Float" -> "DoubleResult"
                [] OTHER -> "ConstructorResult",
     n |-> t.n,
     m |-> t.m,
     kids |-> [k \in DOMAIN t.kids |-> ResultOf(t.kids[k])]]

\* C11: execute_main returns None when no super-combinator is named main;
\* otherwise extraction of the evaluated node succeeds exactly when its tree
\* is built only of Int, Float and Constructor nodes, and then gives
\* IntResult / DoubleResult / ConstructorResult(tag, children in field order).
C11_ExtractResult ==
    main.state = "done" =>
        IF FindMain(assembly) = <<>> THEN main.result = None
        ELSE /\ main.result # None <=> OnlyValues(ResultTree)
             /\ main.result # None => main.result[1] = ResultOf(ResultTree)

C11_Witness ==
    /\ main.state = "done"
    /\ main.result # None
    /\ main.result[1].kind = "ConstructorResult"
    /\ Len(main.result[1].kids) = 2
    /\ main.result[1].kids[1].kind = "IntResult"
    /\ main.result[1].kids[2].kind = "ConstructorResult"

C11_WitnessNone ==
    /\ main.state = "done"
    /\ FindMain(assembly) # <<>>
    /\ main.result = None
    /\ ResultTree.kind = "Constructor"

(***************************************************************************)
(* The scopes of the type checker on their own (ScopeSpec): a client that  *)
(* opens scopes, binds names in the innermost one and lets it go, as       *)
(* TypeScope::typecheck does for Lambda, Let and Case.  entered[n] notes,   *)
(* for every name the scope n has inserted, what the name was bound to      *)
(* just before the first insert: << >> for no binding, << type >> for one.  *)
(***************************************************************************)
\* the depth of the nesting of scopes
MaxScopes == 3

\* the number of bindings one scope saves
MaxSaved == 2

\* the (name, type) pairs insert is called with: a name that the environment
\* does not bind at first, given two types so that a later insert shadows an
\* earlier one
ScopeBindings == {<< "x", Int_ >>, << "x", CharT >>}

ScopeInit == TypeInit

\* TypeScope { env: self, vars: ~[], non_generic: ~[], parent: None }
RootScope ==
    /\ scopes = <<>>
    /\ scopes' = << NewScope >>
    /\ entered' = << <<>> >>
    /\ lastType' = [op |-> "scope"]
    /\ UNCHANGED << namedTypes, constraints, instances, variableIndex, assemblies,
                    allocated, subs, failed, ops, program, vmvars, pvars >>

\* TypeScope::child
ScopeChild ==
    /\ scopes # <<>>
    /\ Len(scopes) < MaxScopes
    /\ scopes' = child(Checker(Env, subs, scopes)).scopes
    /\ entered' = Append(entered, <<>>)
    /\ lastType' = [op |-> "child"]
    /\ UNCHANGED << namedTypes, constraints, instances, variableIndex, assemblies,
                    allocated, subs, failed, ops, program, vmvars, pvars >>

\* TypeScope::insert(name, t) on the innermost scope
ScopeInsert(name, t) ==
    /\ scopes # <<>>
    /\ Len(scopes[Len(scopes)].vars) < MaxSaved
    /\ LET S == insert(Checker(Env, subs, scopes), name, t)
       IN /\ namedTypes' = S.env.namedTypes
          /\ scopes' = S.scopes
    /\ entered' =
           [entered EXCEPT ![Len(scopes)] =
               IF name \in DOMAIN @ THEN @
               ELSE MapInsert(@, name, IF name \in DOMAIN namedTypes
                                       THEN << namedTypes[name] >> ELSE <<>>)]
    /\ lastType' = [op |-> "insert"]
    /\ UNCHANGED << constraints, instances, variableIndex, assemblies,
                    allocated, subs, failed, ops, program, vmvars, pvars >>

\* Drop for TypeScope: the innermost scope goes
ScopeDrop ==
    /\ scopes # <<>>
    /\ LET S == drop(Checker(Env, subs, scopes))
       IN /\ namedTypes' = S.env.namedTypes
          /\ scopes' = S.scopes
    /\ entered' = SubSeq(entered, 1, Len(entered) - 1)
    /\ lastType' = [op |-> "drop", first |-> entered[Len(entered)],
                    vars |-> scopes[Len(scopes)].vars]
    /\ UNCHANGED << constraints, instances, variableIndex, assemblies,
                    allocated, subs, failed, ops, program, vmvars, pvars >>

ScopeNext ==
    \/ RootScope
    \/ ScopeChild
    \/ \E b \in ScopeBindings : ScopeInsert(b[1], b[2])
    \/ ScopeDrop

ScopeSpec == ScopeInit /\ [][ScopeNext]_vars

(***************************************************************************)
(* Calls of unify on one Substitution: a client hands out variables with   *)
(* new_var and unifies types of them, every call with the Substitution     *)
(* that the calls before it have filled.                                   *)
(***************************************************************************)
MaxVars == 2

MaxUnifications == 2

\* the pairs of types of a sequence of calls
UnifySequenceInputs ==
    UnifyInputs \cup {<< Type_new_var(1), list_type(Type_new_var(2)) >>,
                      << Type_new_var(2), list_type(Type_new_var(1)) >>}

UnifyInit == TypeInit

\* TypeEnvironment::new_var()
NewVar ==
    /\ failed = ""
    /\ ops = 0
    /\ variableIndex < MaxVars
    /\ SetEnv(new_var(Env))
    /\ lastType' = [op |-> "new_var"]
    /\ UNCHANGED << scopes, subs, failed, ops, program, entered, vmvars, pvars >>

\* unify_location(env, subs, lhs, rhs) with the Substitution of the calls
\* before it
UnifyOn(lhs, rhs) ==
    /\ ops < MaxUnifications
    /\ failed = ""
    /\ VarsOf(lhs) \cup VarsOf(rhs) \subseteq 1..variableIndex
    /\ LET u == unify_location(Env, subs, lhs, rhs)
       IN /\ SetEnv(u.env)
          /\ subs' = u.subs
          /\ failed' = u.err
          /\ lastType' = [op |-> "unify_on", lhs |-> lhs, rhs |-> rhs, before |-> subs]
    /\ ops' = ops + 1
    /\ UNCHANGED << scopes, program, entered, vmvars, pvars >>

UnifyNext ==
    \/ NewVar
    \/ \E p \in UnifySequenceInputs : UnifyOn(p[1], p[2])

UnifySpec == UnifyInit /\ [][UnifyNext]_vars

(***************************************************************************)
(* The parser of expressions (parser.rs).  The lexer is the cursor of the  *)
(* parser over the tokens of its input: next_ moves it one token forward,  *)
(* backtrack one token back, current is the token under it, which is the   *)
(* EOF token past the end of the input.                                    *)
(***************************************************************************)
MaxTokens == 5

OperandNames == {"a", "b", "c"}

Operators == {"+", "-", "*", ":"}

NameToken(value) == [token |-> "NAME", value |-> value]

OperatorToken(value) == [token |-> "OPERATOR", value |-> value]

EOFToken == [token |-> "EOF", value |-> ""]

ExpressionTokens ==
    {NameToken(n) : n \in OperandNames} \cup {OperatorToken(o) : o \in Operators}

\* the inputs the parser is made over
TokenInputs == UNION {[1..n -> ExpressionTokens] : n \in 1..MaxTokens}

\* Parser::new(input)
NewParser(tokens) == [tokens |-> tokens, offset |-> 0]

lexer_current(tokens, offset) ==
    IF offset \in DOMAIN tokens THEN tokens[offset] ELSE EOFToken

lexer_valid(tokens, offset) == offset \in DOMAIN tokens

lexer_next(offset) == offset + 1

lexer_backtrack(offset) == offset - 1

\* Option<TypedExpr>: None
NoExpr == [k |-> "None"]

Parsed(e, offset) == [e |-> e, offset |-> offset]

precedence(s) ==
    CASE s = "+" -> 1
      [] s = "-" -> 1
      [] s = "*" -> 3
      [] s = "/" -> 3
      [] s = "%" -> 3
      [] s = "==" -> 1
      [] s = "/=" -> 1
      [] s = "<" -> 1
      [] s = ">" -> 1
      [] s = "<=" -> 1
      [] s = ">=" -> 1
      [] OTHER -> 9

RECURSIVE makeApplication(_, _)
makeApplication(f, args) ==
    IF args = <<>> THEN f ELSE makeApplication(Apply(f, Head(args)), Tail(args))

\* makeLambda with one parameter
makeLambda(params, body) == Lambda(params[1], body)

\* the arms of subExpression that the tokens of an operator expression reach
subExpression(tokens, offset) ==
    With(lexer_current(tokens, lexer_next(offset)), LAMBDA token :
    IF token.token = "NAME"
    THEN Parsed(Identifier(token.value), lexer_next(offset))
    ELSE Parsed(NoExpr, lexer_backtrack(lexer_next(offset))))

\* the loop of application: the expressions that follow the first one
RECURSIVE application_arguments(_, _, _)
application_arguments(tokens, offset, expressions) ==
    With(subExpression(tokens, offset), LAMBDA expr :
    IF expr.e = NoExpr THEN Parsed(expressions, expr.offset)
    ELSE application_arguments(tokens, expr.offset, Append(expressions, expr.e)))

application(tokens, offset) ==
    With(subExpression(tokens, offset), LAMBDA e :
    IF e.e = NoExpr THEN e
    ELSE With(application_arguments(tokens, e.offset, <<>>), LAMBDA r :
         Parsed(IF Len(r.e) > 0 THEN makeApplication(e.e, r.e) ELSE e.e, r.offset)))

\* lhs = match (lhs, rhs) { ... }; (None, None) is not met here
OperatorApplication(op, lhs, rhs) ==
    IF lhs # NoExpr /\ rhs # NoExpr
    THEN makeApplication(Identifier(op.value), << lhs, rhs >>)
    ELSE IF lhs # NoExpr
    THEN Apply(Identifier(op.value), lhs)
    ELSE IF op.value = "-"
    THEN makeApplication(Identifier("negate"), << rhs >>)
    ELSE makeLambda(<< "#" >>,
                    makeApplication(Identifier(op.value), << Identifier("#"), rhs >>))

\* the condition of both while loops of parseOperatorExpression
OperatorFollows(tokens, offset, minPrecedence) ==
    /\ lexer_valid(tokens, offset)
    /\ lexer_current(tokens, offset).token = "OPERATOR"
    /\ precedence(lexer_current(tokens, offset).value) >= minPrecedence

\* mutant of OperandGoesOn: an operator of the level of op ends the operand
OperandEndsAtLevel(tokens, offset, op) ==
    OperatorFollows(tokens, offset, precedence(op.value) + 1)

\* the condition of the inner loop: an operator follows whose level is that
\* of op or a higher one
OperandGoesOn(tokens, offset, op) == OperatorFollows(tokens, offset, precedence(op.value))

RECURSIVE parseOperatorExpression(_, _, _, _)
RECURSIVE parseOperators(_, _, _, _)
RECURSIVE parseOperand(_, _, _, _)

\* the inner while loop: rhs is extended while an operator of the level of op
\* or of a higher one follows; offset is the token after rhs
parseOperand(tokens, offset, rhs, op) ==
    IF OperandGoesOn(tokens, offset, op)
    THEN With(parseOperatorExpression(tokens, lexer_backtrack(offset), rhs,
                                      precedence(lexer_current(tokens, offset).value)),
              LAMBDA r : parseOperand(tokens, lexer_next(r.offset), r.e, op))
    ELSE Parsed(rhs, offset)

\* the outer while loop and what follows it
parseOperators(tokens, offset, lhs, minPrecedence) ==
    IF OperatorFollows(tokens, offset, minPrecedence)
    THEN With(lexer_current(tokens, offset), LAMBDA op :
         With(application(tokens, offset), LAMBDA rhs0 :
         With(parseOperand(tokens, lexer_next(rhs0.offset), rhs0.e, op), LAMBDA rhs :
         IF lhs = NoExpr /\ rhs.e = NoExpr THEN Parsed(NoExpr, rhs.offset)
         ELSE parseOperators(tokens, rhs.offset,
                             OperatorApplication(op, lhs, rhs.e), minPrecedence))))
    ELSE Parsed(lhs, lexer_backtrack(offset))

parseOperatorExpression(tokens, offset, inL, minPrecedence) ==
    parseOperators(tokens, lexer_next(offset), inL, minPrecedence)

expression(tokens, offset) ==
    With(application(tokens, offset), LAMBDA app :
    parseOperatorExpression(tokens, app.offset, app.e, 0))

ParseInit ==
    /\ NewVM
    /\ NoTypeEnvironment
    /\ \E tokens \in TokenInputs : lexer = NewParser(tokens)
    /\ parsed = NotParsed

\* parser.expression()
Expression ==
    /\ parsed = NotParsed
    /\ LET r == expression(lexer.tokens, lexer.offset) IN
         /\ parsed' = r.e
         /\ lexer' = [lexer EXCEPT !.offset = r.offset]
    /\ UNCHANGED << vmvars, tvars >>

ParseNext == Expression

ParseSpec == ParseInit /\ [][ParseNext]_vars

(***************************************************************************)
(* Properties of the type checker (TypeSpec).                              *)
(***************************************************************************)

StrictlyIncreasing(ids) == \A i, j \in DOMAIN ids : i < j => ids[i] < ids[j]

\* C12: on one TypeEnvironment the ids new_var hands out increase strictly
\* and the counter variableIndex never decreases, whatever the order of
\* typecheck, typecheck_module and add_types.
C12_FreshIdsIncrease ==
    [][/\ variableIndex' >= variableIndex
       /\ StrictlyIncreasing(allocated')]_vars

\* a substitution applied until nothing changes any more (the chains of the
\* model's inputs are at most three long)
Resolved(t, s) == replace_type(replace_type(replace_type(t, s), s), s)

PairType(a, b) == Type_new_op("(,)", << a, b >>)

\* C13: unification is symmetric: from the same environment and substitution
\* unify(a, b) fails exactly when unify(b, a) fails, and when both succeed
\* the two substitutions are equal up to a renaming of the type variables
\* (they give the two types the same instances up to renaming).
C13_UnifySymmetric ==
    lastType.op = "unify" =>
        /\ (lastType.err = "") <=> (lastType.exchanged.err = "")
        /\ (lastType.err = "" /\ lastType.exchanged.err = "") =>
               TypeEq(Resolved(PairType(lastType.lhs, lastType.rhs), subs),
                      Resolved(PairType(lastType.lhs, lastType.rhs),
                               lastType.exchanged.subs))

Classes(cons, id) == {cons[id][i] : i \in DOMAIN MapFind(cons, id, <<>>)}

ConcreteTypes == {Int_, CharT, Double_}

\* C14: when two different variables l and r are unified and l carried the
\* class C, the variable that stands for l afterwards carries C, and a later
\* unification of it with a concrete operator type checks C against that
\* type: it fails when the type has no instance of C.
C14_ConstraintCarried ==
    (/\ lastType.op = "unify"
     /\ lastType.err = ""
     /\ is_var(lastType.lhs) /\ is_var(lastType.rhs)
     /\ lastType.lhs # lastType.rhs) =>
        \A c \in Classes(lastType.before.constraints, lastType.lhs.typ.id) :
            LET r == Resolved(lastType.lhs, subs)
            IN /\ is_var(r)
               /\ c \in Classes(constraints, r.typ.id)
               /\ \A T \in ConcreteTypes :
                      (~has_instance(Env, c, T) /\ ~BuiltinInstance(c, T.typ.name, T)) =>
                          unify_location(Env, subs, r, T).err
                              = "The instance was not found"

\* the bindings the last operation gave to typecheck_mutually_recursive_bindings
CheckedBindings ==
    CASE lastType.op = "typecheck" /\ lastType.expr.k = "Let" -> lastType.expr.bindings
      [] lastType.op = "typecheck_module" ->
           AllBindings(lastType.module.bindings, lastType.module.instances)
      [] OTHER -> <<>>

CheckedLog ==
    IF lastType.op \in {"typecheck", "typecheck_module"} THEN lastType.log ELSE <<>>

LogPlaces(event, name) ==
    {i \in DOMAIN CheckedLog : CheckedLog[i] = << event, name >>}

\* b refers to d directly, and whether the two refer to each other in a cycle
RefersTo(b, d) == << b, d >> \in build_graph(CheckedBindings).edges

Cyclic(b, d) ==
    /\ d \in ReachFrom(build_graph(CheckedBindings), {b})
    /\ b \in ReachFrom(build_graph(CheckedBindings), {d})

\* C15: a binding is typechecked only after every binding it refers to outside
\* its own strongly connected component was typechecked and had its final
\* type and context recorded; bindings that refer to each other in a cycle
\* are typed together: all of them are typechecked before any is recorded.
C15_SccOrder ==
    \A b, d \in DOMAIN CheckedBindings :
        /\ (RefersTo(b, d) /\ ~Cyclic(b, d)) =>
               \A i \in LogPlaces("typecheck", CheckedBindings[b].name) :
                   /\ \E j \in LogPlaces("typecheck", CheckedBindings[d].name) : j < i
                   /\ \E j \in LogPlaces("record", CheckedBindings[d].name) : j < i
        /\ (b # d /\ Cyclic(b, d)) =>
               \A i \in LogPlaces("record", CheckedBindings[b].name) :
                   \E j \in LogPlaces("typecheck", CheckedBindings[d].name) : j < i

C15_Witness ==
    /\ lastType.op = "typecheck"
    /\ failed = ""
    /\ Len(CheckedLog) = 2 * Len(CheckedBindings)
    /\ \E b, d \in DOMAIN CheckedBindings : RefersTo(b, d) /\ ~Cyclic(b, d) /\ b < d
    /\ \E b, d \in DOMAIN CheckedBindings : b # d /\ Cyclic(b, d)

\* the last operation unified a variable without arguments that carried
\* classes with an operator type without variables, in either order
UnifiedVar == IF is_var(lastType.lhs) THEN lastType.lhs ELSE lastType.rhs

UnifiedOp == IF is_var(lastType.lhs) THEN lastType.rhs ELSE lastType.lhs

VarMeetsConcrete ==
    /\ lastType.op = "unify"
    /\ is_var(lastType.lhs) # is_var(lastType.rhs)
    /\ UnifiedVar.types = <<>>
    /\ VarsOf(UnifiedOp) = {}
    /\ Classes(lastType.before.constraints, UnifiedVar.typ.id) # {}

\* the type has what the class asks for: an instance that has_instance finds
\* in the environment, or one of the built-in ones
Provides(env, c, T) ==
    \/ has_instance(env, c, T)
    \/ c = "Num" /\ T \in {Int_, Double_}
    \/ c = "Fractional" /\ T = Double_

C16_WitnessNoInstance ==
    /\ VarMeetsConcrete
    /\ "Num" \in Classes(lastType.before.constraints, UnifiedVar.typ.id)
    /\ UnifiedOp = CharT
    /\ lastType.err = "The instance was not found"

\* C17: unifying two operator types fails when their names or the numbers of
\* their arguments differ; otherwise the arguments are unified from left to
\* right with the substitution so far applied to the next pair, so a binding
\* made by an earlier argument is seen by every later one: when the call
\* succeeds, the substitution makes the two types equal.
C17_OperatorsUnify ==
    (/\ lastType.op = "unify"
     /\ ~is_var(lastType.lhs) /\ ~is_var(lastType.rhs)) =>
        IF \/ lastType.lhs.typ.name # lastType.rhs.typ.name
           \/ Len(lastType.lhs.types) # Len(lastType.rhs.types)
        THEN lastType.err = "Could not unify types"
        ELSE lastType.err = "" =>
                 Resolved(lastType.lhs, subs) = Resolved(lastType.rhs, subs)

\* the instances declared to the environment: those of the module it has
\* typechecked and those of the modules it has imported
DeclaredInstances ==
    (IF program = <<>> THEN <<>> ELSE program.instances)
        \o Concat([a \in DOMAIN assemblies |-> assemblies[a].instances])

\* the head of an instance matches a type: the same operator with as many
\* arguments
HeadMatches(instance, typ) ==
    /\ ~is_var(typ)
    /\ instance.typ.typ = typ.typ
    /\ Len(instance.typ.types) = Len(typ.types)

\* an instance of the class for the type is declared and its context holds
\* for the arguments of the type
RECURSIVE InstanceHolds(_, _)
InstanceHolds(class, typ) ==
    \E i \in DOMAIN DeclaredInstances :
        LET instance == DeclaredInstances[i]
        IN /\ instance.classname = class
           /\ HeadMatches(instance, typ)
           /\ \A c \in DOMAIN instance.constraints :
                  \A p \in DOMAIN instance.typ.types :
                      (/\ is_var(instance.typ.types[p])
                       /\ instance.typ.types[p].typ.id
                              = instance.constraints[c].variables[1]) =>
                          InstanceHolds(instance.constraints[c].class, typ.types[p])

\* C18: has_instance(C, T) is true only if an instance of C whose head matches
\* T is registered in the environment or in an imported module and every
\* constraint of the context of that instance holds, recursively, for the
\* corresponding argument of T.
C18_HasInstanceSound ==
    (lastType.op = "has_instance" /\ lastType.found) =>
        InstanceHolds(lastType.class, lastType.typ)

\* the calls of freshen the last operation made
FreshenCalls ==
    IF lastType.op \in {"typecheck", "typecheck_module", "fresh"}
    THEN lastType.freshened ELSE <<>>

\* the copy has the shape of the type: the operators and the variables that
\* are not generic are the same, a generic variable has a variable in its place
RECURSIVE SameShape(_, _, _)
SameShape(scs, old, new) ==
    /\ Len(old.types) = Len(new.types)
    /\ IF is_var(old) /\ is_generic(scs, old.typ.id)
       THEN is_var(new)
       ELSE new.typ = old.typ
    /\ \A i \in DOMAIN old.types : SameShape(scs, old.types[i], new.types[i])

\* the pairs (old id, new id) of the generic variables and their copies
RECURSIVE Renamed(_, _, _)
Renamed(scs, old, new) ==
    (IF is_var(old) /\ is_generic(scs, old.typ.id)
     THEN {<< old.typ.id, new.typ.id >>} ELSE {})
        \cup UNION {Renamed(scs, old.types[i], new.types[i]) : i \in DOMAIN old.types}

\* C20: one freshen call returns a type of the same shape in which every
\* generic variable has a variable that was not allocated before the call,
\* the same one for all occurrences of an old variable and different ones for
\* different old variables; variables that are not generic and operators stay;
\* each new variable carries the classes of the variable it replaces.
C20_Freshen ==
    \A n \in DOMAIN FreshenCalls :
        LET e == FreshenCalls[n]
        IN /\ SameShape(e.scopes, e.old, e.new)
           /\ \A p \in Renamed(e.scopes, e.old, e.new) :
                  /\ p[2] \notin {e.allocated[i] : i \in DOMAIN e.allocated}
                  /\ Classes(e.after, p[2]) = Classes(e.before, p[1])
           /\ \A p, q \in Renamed(e.scopes, e.old, e.new) :
                  (p[1] = q[1]) <=> (p[2] = q[2])

(***************************************************************************)
(* Properties of the scopes (ScopeSpec).                                   *)
(***************************************************************************)
\* C19: when a scope exits, every name it shadowed is bound again to the
\* type the name had just before the first insert of that name by the scope,
\* however often the scope inserted the name and however deep it is nested.
C19_ScopeRestores ==
    lastType.op = "drop" =>
        \A name \in DOMAIN lastType.first :
            lastType.first[name] # <<>> =>
                /\ name \in DOMAIN namedTypes
                /\ namedTypes[name] = lastType.first[name][1]

\* a scope inside two others has gone that had saved two bindings of one
\* name, the second of them its own
C19_Witness ==
    /\ lastType.op = "drop"
    /\ Len(scopes) = 2
    /\ Len(lastType.vars) = 2
    /\ lastType.vars[1][1] = lastType.vars[2][1]
    /\ lastType.vars[1][2] # lastType.vars[2][2]
    /\ lastType.first[lastType.vars[1][1]] = << lastType.vars[1][2] >>

(***************************************************************************)
(* Further properties of the virtual machine (Spec).                       *)
(***************************************************************************)
\* the i-th argument of the combinator on top of stack s: the argument of the
\* i-th Application below it (the first is held by the innermost one)
SpineArgument(s, i) == heap[s[Len(s) - i]].m

\* the slots below the combinator on top of s are the spine that Unwind
\* pushed: each Application is the function of the one below it
SpineOf(s, arity) ==
    \A i \in 1..arity :
        /\ heap[s[Len(s) - i]].kind = "Application"
        /\ heap[s[Len(s) - i]].n = s[Len(s) - i + 1]

\* Unwind just rewrote the spine of a saturated combinator and called it
Reduced ==
    /\ Stepped("Unwind")
    /\ last.branch = "Combinator"
    /\ Len(frames) = last.depth + 1
    /\ SpineOf(last.pre, CombinatorOnTop(last.pre).arity)

\* C24 as claimed: after the spine rewrite the slots top - k, .., top - 1 of
\* the caller hold a1, .., ak in that order (top the index of the combinator).
C24_ArgumentsLeftToRight ==
    Reduced =>
        LET k == CombinatorOnTop(last.pre).arity
            top == Len(last.pre)
        IN \A i \in 1..k : StepStack[top - k + i - 1] = SpineArgument(last.pre, i)

\* C24 amended: after the spine rewrite the slot top - i of the caller holds
\* ai, so that the slots top - k, .., top - 1 hold ak, .., a1; the stack of
\* the callee holds a1, .., ak from its index 0 on; the other slots of the
\* caller are as they were.
C24_ArgumentsTopDown ==
    Reduced =>
        LET k == CombinatorOnTop(last.pre).arity
            top == Len(last.pre)
        IN /\ Len(StepStack) = top
           /\ \A i \in 1..k : StepStack[top - i] = SpineArgument(last.pre, i)
           /\ \A j \in 1..top : (j < top - k \/ j = top) => StepStack[j] = last.pre[j]
           /\ Len(Cur.stack) = k
           /\ \A i \in 1..k : Cur.stack[i] = SpineArgument(last.pre, i)

\* a combinator of two different arguments was reduced
C24_Witness ==
    /\ Reduced
    /\ CombinatorOnTop(last.pre).arity = 2
    /\ SpineArgument(last.pre, 1) # SpineArgument(last.pre, 2)

\* the pairs (a, 0), .., (a, n_a - 1) of every assembly a of `as`, in order
GlobalTable(as) ==
    Concat([a \in DOMAIN as |->
               [index \in 1..Len(as[a].superCombinators) |-> << a - 1, index - 1 >>]])

\* the super-combinator that PushGlobal(g) pushes, given the table gl and the
\* assemblies as
GlobalCombinator(gl, as, g) == as[gl[g + 1][1] + 1].superCombinators[gl[g + 1][2] + 1]

\* C25: the global table is the concatenation, in load order, of the pairs
\* (a, 0), .., (a, n_a - 1) of the loaded assemblies; no two indices map to the
\* same pair and every entry addresses a super-combinator that exists; a call
\* of add_assembly appends n_a entries and changes none, so that PushGlobal(g)
\* pushes the same combinator before and after it.
C25_GlobalTable ==
    [][ /\ globals' = GlobalTable(assembly')
        /\ \A g, h \in DOMAIN globals' : globals'[g] = globals'[h] => g = h
        /\ \A g \in DOMAIN globals' :
               /\ globals'[g][1] + 1 \in DOMAIN assembly'
               /\ globals'[g][2] + 1 \in DOMAIN assembly'[globals'[g][1] + 1].superCombinators
        /\ Len(assembly') = Len(assembly) + 1 =>
               /\ Len(globals') =
                      Len(globals) + Len(assembly'[Len(assembly')].superCombinators)
               /\ \A g \in DOMAIN assembly : assembly'[g] = assembly[g]
               /\ \A g \in 0..(Len(globals) - 1) :
                      /\ globals'[g + 1] = globals[g + 1]
                      /\ GlobalCombinator(globals', assembly', g) =
                             GlobalCombinator(globals, assembly, g)
      ]_vars

\* with two assemblies loaded, PushGlobal pushed a combinator of the first
C25_Witness ==
    /\ Len(assembly) = 2
    /\ Len(globals) = Len(Assembly0.superCombinators) + Len(Assembly1.superCombinators)
    /\ Stepped("PushGlobal")
    /\ heap[Top(StepStack)] = Combinator(0, 1)
    /\ GlobalCombinator(globals, assembly, last.op.a).name = "add"

\* C26: Update changes one slot of the stack it works on and nothing else:
\* the stack is as long as before, every other slot and every other stack
\* holds what it held, and every node that existed is what it was, so that
\* whatever referred to the node of the overwritten slot still refers to that
\* same node.
C26_UpdateFrame ==
    [][ (At("Update") /\ Ins.a < Len(Cur.stack)) =>
            LET d == Len(frames)
                slot == Ins.a + 1
            IN /\ aborted' = ""
               /\ Len(frames') = d
               /\ \A k \in 1..(d - 1) : frames'[k] = frames[k]
               /\ Len(frames'[d].stack) = Len(Cur.stack)
               /\ \A k \in DOMAIN Cur.stack :
                      k # slot => frames'[d].stack[k] = Cur.stack[k]
               /\ frames'[d].stack[slot] \notin DOMAIN heap
               /\ \A a \in DOMAIN heap : heap'[a] = heap[a]
               /\ Len(heap') = Len(heap) + 1
               /\ assembly' = assembly
               /\ globals' = globals
      ]_vars

\* an Update overwrote a slot whose node is the argument of an Application
\* and is no Indirection afterwards either
C26_Witness ==
    /\ Stepped("Update")
    /\ StepStack[last.op.a + 1] # last.pre[last.op.a + 1]
    /\ heap[last.pre[last.op.a + 1]].kind # "Indirection"
    /\ \E n \in DOMAIN heap :
           heap[n].kind = "Application" /\ heap[n].m = last.pre[last.op.a + 1]

\* C27: CaseJump(t) with a Constructor of tag `tag` on top of the stack: when
\* tag = t the stack is kept whole and execution goes on two instructions
\* further; when tag # t the top is popped and execution goes on with the
\* next instruction; in both cases the slots below the top, the callers and
\* the nodes are kept.
C27_CaseJump ==
    [][ (/\ At("CaseJump")
         /\ Cur.stack # <<>>
         /\ heap[Top(Cur.stack)].kind = "Constructor") =>
            LET d == Len(frames)
                s == Cur.stack
            IN /\ aborted' = ""
               /\ Len(frames') = d
               /\ \A k \in 1..(d - 1) : frames'[k] = frames[k]
               /\ heap' = heap
               /\ frames'[d].code = Cur.code
               /\ IF heap[Top(s)].n = Ins.a
                  THEN frames'[d].stack = s /\ frames'[d].i = Cur.i + 2
                  ELSE frames'[d].stack = Front(s, 1) /\ frames'[d].i = Cur.i + 1
      ]_vars

\* a CaseJump met the tag it names on a stack of two slots or more and left
\* the stack as it was
C27_Witness ==
    /\ Stepped("CaseJump")
    /\ last.branch = "match"
    /\ last.op.a = 0
    /\ Len(last.pre) >= 2
    /\ StepStack = last.pre
    /\ heap[Top(last.pre)].kind = "Constructor"
    /\ heap[Top(last.pre)].n = 0

\* a CaseJump whose tag differed left the stack one shorter
C27_WitnessOther ==
    /\ Stepped("CaseJump")
    /\ last.branch = "other"
    /\ StepStack = Front(last.pre, 1)
    /\ heap[Top(last.pre)].n # last.op.a

(***************************************************************************)
(* Properties of the parser (ParseSpec).                                   *)
(***************************************************************************)

\* the tokens are operand, operator, operand, operator, operand, with the
\* operators at i and j and every operand one name or an application of names
OperatorChain(tokens, i, j) ==
    /\ 1 < i /\ i + 1 < j /\ j < Len(tokens)
    /\ \A n \in DOMAIN tokens :
          tokens[n].token = (IF n \in {i, j} THEN "OPERATOR" ELSE "NAME")

\* the expression of the operand that the tokens from..to spell
Operand(tokens, from, to) ==
    LET names == [n \in 1..(to - from + 1) |-> Identifier(tokens[from + n - 1].value)]
    IN IF Len(names) = 1 THEN names[1] ELSE makeApplication(names[1], Tail(names))

Binary(op, l, r) == Apply(Apply(Identifier(op), l), r)

LeftNested(tokens, i, j) ==
    Binary(tokens[j].value,
           Binary(tokens[i].value, Operand(tokens, 1, i - 1), Operand(tokens, i + 1, j - 1)),
           Operand(tokens, j + 1, Len(tokens)))

RightNested(tokens, i, j) ==
    Binary(tokens[i].value,
           Operand(tokens, 1, i - 1),
           Binary(tokens[j].value, Operand(tokens, i + 1, j - 1),
                  Operand(tokens, j + 1, Len(tokens))))

\* C21: a op1 b op2 c parses as (a op1 b) op2 c when op1 and op2 are of one
\* level, and the operator of the higher level takes the operand between
\* them when the levels differ.
C21_LeftAssociative ==
    parsed # NotParsed =>
        \A i, j \in DOMAIN lexer.tokens :
            OperatorChain(lexer.tokens, i, j) =>
                IF precedence(lexer.tokens[i].value) >= precedence(lexer.tokens[j].value)
                THEN parsed = LeftNested(lexer.tokens, i, j)
                ELSE parsed = RightNested(lexer.tokens, i, j)

\* the part of C21 on levels that differ: the operator of the higher level
\* takes the operand between the two
HigherLevelBindsTighter ==
    parsed # NotParsed =>
        \A i, j \in DOMAIN lexer.tokens :
            /\ OperatorChain(lexer.tokens, i, j)
            /\ precedence(lexer.tokens[i].value) # precedence(lexer.tokens[j].value)
            => IF precedence(lexer.tokens[i].value) > precedence(lexer.tokens[j].value)
               THEN parsed = LeftNested(lexer.tokens, i, j)
               ELSE parsed = RightNested(lexer.tokens, i, j)

\* what the parser does with two operators of one level
EqualLevelsNestRight ==
    parsed # NotParsed =>
        \A i, j \in DOMAIN lexer.tokens :
            /\ OperatorChain(lexer.tokens, i, j)
            /\ precedence(lexer.tokens[i].value) = precedence(lexer.tokens[j].value)
            => parsed = RightNested(lexer.tokens, i, j)

\* C22: a : b : c parses to Apply(Apply(:, a), Apply(Apply(:, b), c)) for
\* all operands a, b and c.
C22_ConsNestsRight ==
    parsed # NotParsed =>
        \A i, j \in DOMAIN lexer.tokens :
            /\ OperatorChain(lexer.tokens, i, j)
            /\ lexer.tokens[i].value = ":"
            /\ lexer.tokens[j].value = ":"
            => parsed = Apply(Apply(Identifier(":"), Operand(lexer.tokens, 1, i - 1)),
                              Apply(Apply(Identifier(":"),
                                          Operand(lexer.tokens, i + 1, j - 1)),
                                    Operand(lexer.tokens, j + 1, Len(lexer.tokens))))

\* a : b : c has been parsed, the whole input read
C22_Witness ==
    /\ lexer.tokens = << NameToken("a"), OperatorToken(":"), NameToken("b"),
                         OperatorToken(":"), NameToken("c") >>
    /\ parsed = Binary(":", Identifier("a"), Binary(":", Identifier("b"), Identifier("c")))
    /\ lexer.offset = 5

(***************************************************************************)
(* Further properties of the type checker (TypeSpec).                      *)
(***************************************************************************)

\* the class of the checked module that the instance is an instance of
ClassOf(instance) ==
    CHOOSE class \in {program.classes[c] : c \in DOMAIN program.classes} :
        class.name = instance.classname

\* the binding of the instance is the one stored for the method of decl
BindingOfMethod(instance, binding, decl) ==
    binding.name = encodeBindingIdentifier(instance.typ.typ.name, decl.name)

\* C23: in a module that typecheck_module has checked, the binding of an
\* instance of class C on T that is stored for the method m carries the
\* declaration of m, with the type declared for m in C where T stands for
\* the variable of the class.
C23_InstanceDeclarations ==
    program # <<>> =>
        \A i \in DOMAIN program.instances :
            LET instance == program.instances[i]
                class == ClassOf(instance)
            IN \A b \in DOMAIN instance.bindings, d \in DOMAIN class.declarations :
                   BindingOfMethod(instance, instance.bindings[b], class.declarations[d])
                   => /\ instance.bindings[b].typeDecl.name = class.declarations[d].name
                      /\ TypeEq(instance.bindings[b].typeDecl.typ,
                                replace_var(class.declarations[d].typ, class.variable,
                                            instance.typ))

\* the same for the classes none of whose method names ends with another
NoSuffixAmong(class) ==
    \A d, e \in DOMAIN class.declarations :
        d # e => ~ends_with(class.declarations[d].name, class.declarations[e].name)

InstanceDeclarationsWithoutSuffix ==
    (program # <<>> /\ \A c \in DOMAIN program.classes : NoSuffixAmong(program.classes[c]))
    => C23_InstanceDeclarations

(***************************************************************************)
(* Further properties of the scopes (ScopeSpec).                           *)
(***************************************************************************)
\* C30: when a child scope has exited, the names bound in the environment are
\* the ones bound before the scope was entered: a name that was unbound
\* before the first insert of it by the scope is unbound again.
C30_ScopeUnbinds ==
    (lastType.op = "drop" /\ scopes # <<>>) =>
        \A name \in DOMAIN lastType.first :
            lastType.first[name] = <<>> => name \notin DOMAIN namedTypes

\* the names that were bound before the scope are bound after it
BoundNamesKept ==
    (lastType.op = "drop" /\ scopes # <<>>) =>
        \A name \in DOMAIN lastType.first :
            lastType.first[name] # <<>> => name \in DOMAIN namedTypes

(***************************************************************************)
(* Properties of the calls of unify on one Substitution (UnifySpec).       *)
(***************************************************************************)
\* C28: after any sequence of calls of unify that succeeded, no entry of the
\* Substitution maps a variable to a type in which the variable occurs, the
\* variable itself included.
C28_NoVariableInItsType ==
    failed = "" => \A v \in DOMAIN subs.subs : ~occurs(v, subs.subs[v])

\* the same after one call on a new Substitution
OneCallNoVariableInItsType ==
    (failed = "" /\ ops <= 1) => \A v \in DOMAIN subs.subs : ~occurs(v, subs.subs[v])

(***************************************************************************)
(* Properties of lambda parameters (TypeSpec).                             *)
(***************************************************************************)
\* the freshen calls that typecheck made for the parameter of the lambda
\* expression it was given (fresh of the name, inside the body)
ParameterCalls ==
    IF lastType.op = "typecheck" /\ lastType.expr.k = "Lambda"
    THEN SelectSeq(lastType.freshened, LAMBDA e : e.name = lastType.expr.arg)
    ELSE <<>>

\* no variable of the type bound to the parameter is generic, and the
\* occurrence gets that type as it is
Monomorphic(e) ==
    /\ \A v \in VarsOf(e.old) : ~is_generic(e.scopes, v)
    /\ e.new = e.old

\* C29: while the body of Lambda(p, body) is typechecked, every variable of
\* the type that the environment binds to p is non-generic, so that every
\* occurrence of Identifier(p) gets the type of p with no variable replaced by
\* a new one, also after a unification or a constructor pattern has refined
\* the type of p.
C29_ParameterMonomorphic ==
    \A n \in DOMAIN ParameterCalls : Monomorphic(ParameterCalls[n])

\* the same for the lambda expressions other than the one whose body matches
\* the parameter against a constructor pattern without variables
MonomorphicWithPatternVariables ==
    (lastType.op = "typecheck" /\ lastType.expr # LambdaCaseNil)
    => \A n \in DOMAIN ParameterCalls : Monomorphic(ParameterCalls[n])

\* a parameter whose type a constructor pattern has refined to a list type
\* was met again in the body and got that type
RefinedAndMonomorphic ==
    /\ lastType.op = "typecheck"
    /\ lastType.expr = LambdaCaseCons
    /\ failed = ""
    /\ Len(ParameterCalls) = 2
    /\ ~is_var(ParameterCalls[2].old)
    /\ VarsOf(ParameterCalls[2].old) # {}
    /\ Monomorphic(ParameterCalls[2])

====
